---- MODULE Spec2Model ----
(***************************************************************************)
(* Model of the component-detection engine of eslint-plugin-react:         *)
(* the Components registry (lib/util/Components.js), the detection         *)
(* instructions of componentRule, and the used-props tracker               *)
(* (lib/util/usedPropTypes.js).                                            *)
(*                                                                         *)
(* Spec      the registry driven through its public interface              *)
(*           (add / get / set / list / length) over a fixed syntax tree.   *)
(* SpecWalk  the merged visitor set driven depth-first over a syntax tree  *)
(*           chosen from Programs.                                         *)
(***************************************************************************)
EXTENDS Integers, Sequences, FiniteSets, TLC

VARIABLES
  ast,         \* the syntax tree under analysis: node id -> node
  components,  \* the Components instance: [list: key -> record, order: keys in insertion order]
  ret,         \* the last operation and what it returned
  hist,        \* per key, the confidences passed to add so far: [zero, max]
  calls,       \* number of add, set and list calls made so far (Spec)
  pos,         \* index of the next visitor event of the walk (SpecWalk)
  thrown,      \* "" or the exception that ended the walk
  propVariables, \* the scope stack of createPropVariables (SpecWalk)
  reported     \* the nodes no-this-in-sfc reported (SpecWalk)

vars == <<ast, components, ret, hist, calls, pos, thrown, propVariables, reported>>

-----------------------------------------------------------------------------
(* Bounds: the number of add, set and list calls a run of Spec makes *)

MaxAdds == 3
MaxSets == 2
MaxLists == 1

-----------------------------------------------------------------------------
(* Syntax trees.  A node is a record of the fields it has; N(node) reads  *)
(* a field the node does not have as the default below (0 for "no node",  *)
(* <<>>, FALSE, "").                                                       *)

NodeDefaults ==
  [ type |-> "None", parent |-> 0, range |-> 0, name |-> "",
    async |-> FALSE, generator |-> FALSE, expression |-> FALSE,
    params |-> <<>>, body |-> 0, callee |-> 0, arguments |-> <<>>,
    object |-> 0, property |-> 0, computed |-> FALSE,
    id |-> 0, init |-> 0, key |-> 0, value |-> 0, method |-> FALSE,
    kind |-> "", left |-> 0, right |-> 0, properties |-> <<>>,
    argument |-> 0, expressions |-> <<>>, bodyList |-> <<>>, raw |-> "",
    returnsJSX |-> FALSE, returnsNull |-> FALSE, pragmaImport |-> FALSE,
    es6Component |-> FALSE, es5Component |-> FALSE ]

\* node i of type t under parent p, with the fields of `extra` set
Nd(i, t, p, extra) == extra @@ [type |-> t, parent |-> p, range |-> i]

None == <<>>

-----------------------------------------------------------------------------
(* Syntax trees *)

\* class G { @D(x?.()) m = function P() { return () => 0 } }
\* the ChainExpression (6) and the call it wraps (7) span the same range
RegTree ==
  <<Nd(1, "Program", 0, None),
    Nd(2, "ClassDeclaration", 1, None),
    Nd(3, "FunctionExpression", 2, None),
    Nd(4, "ArrowFunctionExpression", 3, None),
    Nd(5, "Decorator", 2, None),
    Nd(6, "ChainExpression", 5, None),
    Nd(7, "CallExpression", 6, [range |-> 6])>>

\* import {memo, forwardRef} from 'react'
\* const Foo = memo(forwardRef((props, ref) => <div/>))
MemoForwardRef ==
  <<Nd(1, "Program", 0, None),
    Nd(2, "ImportDeclaration", 1, None),
    Nd(3, "ImportSpecifier", 2, [name |-> "memo"]),
    Nd(4, "ImportSpecifier", 2, [name |-> "forwardRef"]),
    Nd(5, "VariableDeclaration", 1, [kind |-> "const"]),
    Nd(6, "VariableDeclarator", 5, [id |-> 7, init |-> 8]),
    Nd(7, "Identifier", 6, [name |-> "Foo"]),
    Nd(8, "CallExpression", 6, [callee |-> 9, arguments |-> <<10>>, pragmaImport |-> TRUE]),
    Nd(9, "Identifier", 8, [name |-> "memo"]),
    Nd(10, "CallExpression", 8, [callee |-> 11, arguments |-> <<12>>, pragmaImport |-> TRUE]),
    Nd(11, "Identifier", 10, [name |-> "forwardRef"]),
    Nd(12, "ArrowFunctionExpression", 10,
       [params |-> <<13, 14>>, body |-> 15, expression |-> TRUE, returnsJSX |-> TRUE]),
    Nd(13, "Identifier", 12, [name |-> "props"]),
    Nd(14, "Identifier", 12, [name |-> "ref"]),
    Nd(15, "JSXElement", 12, [name |-> "div"])>>

\* const Foo = React.memo(React.forwardRef((props, ref) => <div/>))
ReactMemoForwardRef ==
  <<Nd(1, "Program", 0, None),
    Nd(2, "VariableDeclaration", 1, [kind |-> "const"]),
    Nd(3, "VariableDeclarator", 2, [id |-> 4, init |-> 5]),
    Nd(4, "Identifier", 3, [name |-> "Foo"]),
    Nd(5, "CallExpression", 3, [callee |-> 6, arguments |-> <<9>>]),
    Nd(6, "MemberExpression", 5, [object |-> 7, property |-> 8]),
    Nd(7, "Identifier", 6, [name |-> "React"]),
    Nd(8, "Identifier", 6, [name |-> "memo"]),
    Nd(9, "CallExpression", 5, [callee |-> 10, arguments |-> <<13>>]),
    Nd(10, "MemberExpression", 9, [object |-> 11, property |-> 12]),
    Nd(11, "Identifier", 10, [name |-> "React"]),
    Nd(12, "Identifier", 10, [name |-> "forwardRef"]),
    Nd(13, "ArrowFunctionExpression", 9,
       [params |-> <<14, 15>>, body |-> 16, expression |-> TRUE, returnsJSX |-> TRUE]),
    Nd(14, "Identifier", 13, [name |-> "props"]),
    Nd(15, "Identifier", 13, [name |-> "ref"]),
    Nd(16, "JSXElement", 13, [name |-> "div"])>>

\* const Foo = () => <div>{this.x}</div>
ThisInSFC ==
  <<Nd(1, "Program", 0, None),
    Nd(2, "VariableDeclaration", 1, [kind |-> "const"]),
    Nd(3, "VariableDeclarator", 2, [id |-> 4, init |-> 5]),
    Nd(4, "Identifier", 3, [name |-> "Foo"]),
    Nd(5, "ArrowFunctionExpression", 3, [body |-> 6, expression |-> TRUE, returnsJSX |-> TRUE]),
    Nd(6, "JSXElement", 5, [name |-> "div"]),
    Nd(7, "JSXExpressionContainer", 6, None),
    Nd(8, "MemberExpression", 7, [object |-> 9, property |-> 10]),
    Nd(9, "ThisExpression", 8, None),
    Nd(10, "Identifier", 8, [name |-> "x"])>>

\* function Foo(props) { const {a} = props; return <div>{props.b.c}</div> }
DestructuredLocal ==
  <<Nd(1, "Program", 0, None),
    Nd(2, "FunctionDeclaration", 1, [id |-> 3, params |-> <<4>>, body |-> 5, returnsJSX |-> TRUE]),
    Nd(3, "Identifier", 2, [name |-> "Foo"]),
    Nd(4, "Identifier", 2, [name |-> "props"]),
    Nd(5, "BlockStatement", 2, [bodyList |-> <<6, 13>>]),
    Nd(6, "VariableDeclaration", 5, [kind |-> "const"]),
    Nd(7, "VariableDeclarator", 6, [id |-> 8, init |-> 12]),
    Nd(8, "ObjectPattern", 7, [properties |-> <<9>>]),
    Nd(9, "Property", 8, [key |-> 10, value |-> 11, kind |-> "init"]),
    Nd(10, "Identifier", 9, [name |-> "a"]),
    Nd(11, "Identifier", 9, [name |-> "a"]),
    Nd(12, "Identifier", 7, [name |-> "props"]),
    Nd(13, "ReturnStatement", 5, [argument |-> 14]),
    Nd(14, "JSXElement", 13, [name |-> "div"]),
    Nd(15, "JSXExpressionContainer", 14, None),
    Nd(16, "MemberExpression", 15, [object |-> 17, property |-> 20]),
    Nd(17, "MemberExpression", 16, [object |-> 18, property |-> 19]),
    Nd(18, "Identifier", 17, [name |-> "props"]),
    Nd(19, "Identifier", 17, [name |-> "b"]),
    Nd(20, "Identifier", 16, [name |-> "c"])>>

\* function Foo(props) { return <div>{props.b.c}</div> }
PropsMember ==
  <<Nd(1, "Program", 0, None),
    Nd(2, "FunctionDeclaration", 1, [id |-> 3, params |-> <<4>>, body |-> 5, returnsJSX |-> TRUE]),
    Nd(3, "Identifier", 2, [name |-> "Foo"]),
    Nd(4, "Identifier", 2, [name |-> "props"]),
    Nd(5, "BlockStatement", 2, [bodyList |-> <<6>>]),
    Nd(6, "ReturnStatement", 5, [argument |-> 7]),
    Nd(7, "JSXElement", 6, [name |-> "div"]),
    Nd(8, "JSXExpressionContainer", 7, None),
    Nd(9, "MemberExpression", 8, [object |-> 10, property |-> 13]),
    Nd(10, "MemberExpression", 9, [object |-> 11, property |-> 12]),
    Nd(11, "Identifier", 10, [name |-> "props"]),
    Nd(12, "Identifier", 10, [name |-> "b"]),
    Nd(13, "Identifier", 9, [name |-> "c"])>>

\* function f({componentDidUpdate: {a} = {}}) {}
LifeCycleKey ==
  <<Nd(1, "Program", 0, None),
    Nd(2, "FunctionDeclaration", 1, [id |-> 3, params |-> <<4>>, body |-> 12]),
    Nd(3, "Identifier", 2, [name |-> "f"]),
    Nd(4, "ObjectPattern", 2, [properties |-> <<5>>]),
    Nd(5, "Property", 4, [key |-> 6, value |-> 7, kind |-> "init"]),
    Nd(6, "Identifier", 5, [name |-> "componentDidUpdate"]),
    Nd(7, "AssignmentPattern", 5, [left |-> 8, right |-> 11]),
    Nd(8, "ObjectPattern", 7, [properties |-> <<9>>]),
    Nd(9, "Property", 8, [key |-> 10, value |-> 10, kind |-> "init"]),
    Nd(10, "Identifier", 9, [name |-> "a"]),
    Nd(11, "ObjectExpression", 7, None),
    Nd(12, "BlockStatement", 2, None)>>

\* class A extends React.Component {
\*   componentDidUpdate({a, b: {c}}) {}
\*   render() { return <div {...this.props}/> }
\* }
ClassComponent ==
  <<Nd(1, "Program", 0, None),
    Nd(2, "ClassDeclaration", 1, [id |-> 3, body |-> 4, es6Component |-> TRUE]),
    Nd(3, "Identifier", 2, [name |-> "A"]),
    Nd(4, "ClassBody", 2, [bodyList |-> <<5, 19>>]),
    Nd(5, "MethodDefinition", 4, [key |-> 6, value |-> 7, kind |-> "method"]),
    Nd(6, "Identifier", 5, [name |-> "componentDidUpdate"]),
    Nd(7, "FunctionExpression", 5, [params |-> <<8>>, body |-> 18]),
    Nd(8, "ObjectPattern", 7, [properties |-> <<9, 12>>]),
    Nd(9, "Property", 8, [key |-> 10, value |-> 11, kind |-> "init"]),
    Nd(10, "Identifier", 9, [name |-> "a"]),
    Nd(11, "Identifier", 9, [name |-> "a"]),
    Nd(12, "Property", 8, [key |-> 13, value |-> 14, kind |-> "init"]),
    Nd(13, "Identifier", 12, [name |-> "b"]),
    Nd(14, "ObjectPattern", 12, [properties |-> <<15>>]),
    Nd(15, "Property", 14, [key |-> 16, value |-> 17, kind |-> "init"]),
    Nd(16, "Identifier", 15, [name |-> "c"]),
    Nd(17, "Identifier", 15, [name |-> "c"]),
    Nd(18, "BlockStatement", 7, None),
    Nd(19, "MethodDefinition", 4, [key |-> 20, value |-> 21, kind |-> "method"]),
    Nd(20, "Identifier", 19, [name |-> "render"]),
    Nd(21, "FunctionExpression", 19, [body |-> 22, returnsJSX |-> TRUE]),
    Nd(22, "BlockStatement", 21, [bodyList |-> <<23>>]),
    Nd(23, "ReturnStatement", 22, [argument |-> 24]),
    Nd(24, "JSXElement", 23, [name |-> "div"]),
    Nd(25, "JSXSpreadAttribute", 24, [argument |-> 26]),
    Nd(26, "MemberExpression", 25, [object |-> 27, property |-> 28]),
    Nd(27, "ThisExpression", 26, None),
    Nd(28, "Identifier", 26, [name |-> "props"])>>

\* createReactClass({ render() { return <div>{this.props.x}</div> } })
Es5Component ==
  <<Nd(1, "Program", 0, None),
    Nd(2, "ExpressionStatement", 1, None),
    Nd(3, "CallExpression", 2, [callee |-> 4, arguments |-> <<5>>]),
    Nd(4, "Identifier", 3, [name |-> "createReactClass"]),
    Nd(5, "ObjectExpression", 3, [properties |-> <<6>>, es5Component |-> TRUE]),
    Nd(6, "Property", 5, [key |-> 7, value |-> 8, method |-> TRUE, kind |-> "init"]),
    Nd(7, "Identifier", 6, [name |-> "render"]),
    Nd(8, "FunctionExpression", 6, [body |-> 9, returnsJSX |-> TRUE]),
    Nd(9, "BlockStatement", 8, [bodyList |-> <<10>>]),
    Nd(10, "ReturnStatement", 9, [argument |-> 11]),
    Nd(11, "JSXElement", 10, [name |-> "div"]),
    Nd(12, "JSXExpressionContainer", 11, None),
    Nd(13, "MemberExpression", 12, [object |-> 14, property |-> 17]),
    Nd(14, "MemberExpression", 13, [object |-> 15, property |-> 16]),
    Nd(15, "ThisExpression", 14, None),
    Nd(16, "Identifier", 14, [name |-> "props"]),
    Nd(17, "Identifier", 13, [name |-> "x"])>>

\* class Foo extends Component { render() { return <div>{this.props.x.y}</div> } }
ClassPropsMember ==
  <<Nd(1, "Program", 0, None),
    Nd(2, "ClassDeclaration", 1, [id |-> 3, body |-> 5, es6Component |-> TRUE]),
    Nd(3, "Identifier", 2, [name |-> "Foo"]),
    Nd(4, "Identifier", 2, [name |-> "Component"]),
    Nd(5, "ClassBody", 2, [bodyList |-> <<6>>]),
    Nd(6, "MethodDefinition", 5, [key |-> 7, value |-> 8, kind |-> "method"]),
    Nd(7, "Identifier", 6, [name |-> "render"]),
    Nd(8, "FunctionExpression", 6, [body |-> 9, returnsJSX |-> TRUE]),
    Nd(9, "BlockStatement", 8, [bodyList |-> <<10>>]),
    Nd(10, "ReturnStatement", 9, [argument |-> 11]),
    Nd(11, "JSXElement", 10, [name |-> "div"]),
    Nd(12, "JSXExpressionContainer", 11, None),
    Nd(13, "MemberExpression", 12, [object |-> 14, property |-> 19]),
    Nd(14, "MemberExpression", 13, [object |-> 15, property |-> 18]),
    Nd(15, "MemberExpression", 14, [object |-> 16, property |-> 17]),
    Nd(16, "ThisExpression", 15, None),
    Nd(17, "Identifier", 15, [name |-> "props"]),
    Nd(18, "Identifier", 14, [name |-> "x"]),
    Nd(19, "Identifier", 13, [name |-> "y"])>>

\* function <name>({a, ...rest}) { return <div/> }       (stop = "rest")
\* function <name>({a, [k]: x, b}) { return <div/> }     (stop = "computed")
DestructuredParam(name, stop) ==
  IF stop = "rest"
  THEN <<Nd(1, "Program", 0, None),
         Nd(2, "FunctionDeclaration", 1,
            [id |-> 3, params |-> <<4>>, body |-> 10, returnsJSX |-> TRUE]),
         Nd(3, "Identifier", 2, [name |-> name]),
         Nd(4, "ObjectPattern", 2, [properties |-> <<5, 8>>]),
         Nd(5, "Property", 4, [key |-> 6, value |-> 7, kind |-> "init"]),
         Nd(6, "Identifier", 5, [name |-> "a"]),
         Nd(7, "Identifier", 5, [name |-> "a"]),
         Nd(8, "RestElement", 4, [argument |-> 9]),
         Nd(9, "Identifier", 8, [name |-> "rest"]),
         Nd(10, "BlockStatement", 2, [bodyList |-> <<11>>]),
         Nd(11, "ReturnStatement", 10, [argument |-> 12]),
         Nd(12, "JSXElement", 11, [name |-> "div"])>>
  ELSE <<Nd(1, "Program", 0, None),
         Nd(2, "FunctionDeclaration", 1,
            [id |-> 3, params |-> <<4>>, body |-> 14, returnsJSX |-> TRUE]),
         Nd(3, "Identifier", 2, [name |-> name]),
         Nd(4, "ObjectPattern", 2, [properties |-> <<5, 8, 11>>]),
         Nd(5, "Property", 4, [key |-> 6, value |-> 7, kind |-> "init"]),
         Nd(6, "Identifier", 5, [name |-> "a"]),
         Nd(7, "Identifier", 5, [name |-> "a"]),
         Nd(8, "Property", 4, [key |-> 9, value |-> 10, kind |-> "init", computed |-> TRUE]),
         Nd(9, "Identifier", 8, [name |-> "k"]),
         Nd(10, "Identifier", 8, [name |-> "x"]),
         Nd(11, "Property", 4, [key |-> 12, value |-> 13, kind |-> "init"]),
         Nd(12, "Identifier", 11, [name |-> "b"]),
         Nd(13, "Identifier", 11, [name |-> "b"]),
         Nd(14, "BlockStatement", 2, [bodyList |-> <<15>>]),
         Nd(15, "ReturnStatement", 14, [argument |-> 16]),
         Nd(16, "JSXElement", 15, [name |-> "div"])>>

\* function Foo(props) { return <div>{props[k]}</div> }
\* class A extends Component { render() { return <div>{this.props[k]}</div> } }
ComputedMember ==
  <<Nd(1, "Program", 0, None),
    Nd(2, "FunctionDeclaration", 1, [id |-> 3, params |-> <<4>>, body |-> 5, returnsJSX |-> TRUE]),
    Nd(3, "Identifier", 2, [name |-> "Foo"]),
    Nd(4, "Identifier", 2, [name |-> "props"]),
    Nd(5, "BlockStatement", 2, [bodyList |-> <<6>>]),
    Nd(6, "ReturnStatement", 5, [argument |-> 7]),
    Nd(7, "JSXElement", 6, [name |-> "div"]),
    Nd(8, "JSXExpressionContainer", 7, None),
    Nd(9, "MemberExpression", 8, [object |-> 10, property |-> 11, computed |-> TRUE]),
    Nd(10, "Identifier", 9, [name |-> "props"]),
    Nd(11, "Identifier", 9, [name |-> "k"]),
    Nd(12, "ClassDeclaration", 1, [id |-> 13, body |-> 15, es6Component |-> TRUE]),
    Nd(13, "Identifier", 12, [name |-> "A"]),
    Nd(14, "Identifier", 12, [name |-> "Component"]),
    Nd(15, "ClassBody", 12, [bodyList |-> <<16>>]),
    Nd(16, "MethodDefinition", 15, [key |-> 17, value |-> 18, kind |-> "method"]),
    Nd(17, "Identifier", 16, [name |-> "render"]),
    Nd(18, "FunctionExpression", 16, [body |-> 19, returnsJSX |-> TRUE]),
    Nd(19, "BlockStatement", 18, [bodyList |-> <<20>>]),
    Nd(20, "ReturnStatement", 19, [argument |-> 21]),
    Nd(21, "JSXElement", 20, [name |-> "div"]),
    Nd(22, "JSXExpressionContainer", 21, None),
    Nd(23, "MemberExpression", 22, [object |-> 24, property |-> 27, computed |-> TRUE]),
    Nd(24, "MemberExpression", 23, [object |-> 25, property |-> 26]),
    Nd(25, "ThisExpression", 24, None),
    Nd(26, "Identifier", 24, [name |-> "props"]),
    Nd(27, "Identifier", 23, [name |-> "k"])>>

\* the subtree of a function f = [type, id, returns, params, banned] at
\* index i under parent p: the function, its name, its parameter `props` and
\* its body; returns is "jsx", "null" or "other", banned is `async` with `*`.
\* Type "Identifier" gives the identifier x instead of a function.
Fn(i, p, f) ==
  IF f.type = "Identifier" THEN <<Nd(i, "Identifier", p, [name |-> "x"])>>
  ELSE <<Nd(i, f.type, p,
            [id |-> IF f.id = "" THEN 0 ELSE i + 1,
             params |-> IF f.params = 1
                        THEN <<i + (IF f.id = "" THEN 1 ELSE 2)>> ELSE <<>>,
             body |-> i + (IF f.id = "" THEN 1 ELSE 2) + f.params,
             expression |-> f.type = "ArrowFunctionExpression" /\ f.returns = "jsx",
             async |-> f.banned, generator |-> f.banned,
             returnsJSX |-> f.returns = "jsx", returnsNull |-> f.returns = "null"])>>
       \o (IF f.id = "" THEN <<>> ELSE <<Nd(i + 1, "Identifier", i, [name |-> f.id])>>)
       \o (IF f.params = 1
           THEN <<Nd(i + (IF f.id = "" THEN 1 ELSE 2), "Identifier", i, [name |-> "props"])>>
           ELSE <<>>)
       \o <<Nd(i + (IF f.id = "" THEN 1 ELSE 2) + f.params,
               IF f.type = "ArrowFunctionExpression" /\ f.returns = "jsx"
               THEN "JSXElement" ELSE "BlockStatement", i, None)>>

\* the statement that puts the function f at the place `place` under `name`:
\*   "declaration"  function name() {...}
\*   "export"       export default function name() {...}   (name may be "")
\*   "declarator"   const name = f
\*   "assignment"   name = f
\*   "member"       a.name = f
\*   "property"     const o = {name: f}
\*   "method"       const o = {name() {...}}
\*   "computed"     const o = {[name]: f}
\*   "call"         const Foo = name(f)     (memo is imported from 'react')
Placed(place, name, f) ==
  CASE place = "declaration" ->
         Fn(2, 1, [f EXCEPT !.type = "FunctionDeclaration", !.id = name])
    [] place = "export" ->
         <<Nd(2, "ExportDefaultDeclaration", 1, None)>>
         \o Fn(3, 2, [f EXCEPT !.type = "FunctionDeclaration", !.id = name])
    [] place = "declarator" ->
         <<Nd(2, "VariableDeclaration", 1, [kind |-> "const"]),
           Nd(3, "VariableDeclarator", 2, [id |-> 4, init |-> 5]),
           Nd(4, "Identifier", 3, [name |-> name])>>
         \o Fn(5, 3, f)
    [] place = "assignment" ->
         <<Nd(2, "ExpressionStatement", 1, None),
           Nd(3, "AssignmentExpression", 2, [left |-> 4, right |-> 5]),
           Nd(4, "Identifier", 3, [name |-> name])>>
         \o Fn(5, 3, f)
    [] place = "member" ->
         <<Nd(2, "ExpressionStatement", 1, None),
           Nd(3, "AssignmentExpression", 2, [left |-> 4, right |-> 7]),
           Nd(4, "MemberExpression", 3, [object |-> 5, property |-> 6]),
           Nd(5, "Identifier", 4, [name |-> "a"]),
           Nd(6, "Identifier", 4, [name |-> name])>>
         \o Fn(7, 3, f)
    [] place \in {"property", "method", "computed"} ->
         <<Nd(2, "VariableDeclaration", 1, [kind |-> "const"]),
           Nd(3, "VariableDeclarator", 2, [id |-> 4, init |-> 5]),
           Nd(4, "Identifier", 3, [name |-> "o"]),
           Nd(5, "ObjectExpression", 3, [properties |-> <<6>>]),
           Nd(6, "Property", 5, [key |-> 7, value |-> 8, kind |-> "init",
                                 method |-> place = "method", computed |-> place = "computed"]),
           Nd(7, "Identifier", 6, [name |-> name])>>
         \o Fn(8, 6, f)
    [] place = "call" ->
         <<Nd(2, "VariableDeclaration", 1, [kind |-> "const"]),
           Nd(3, "VariableDeclarator", 2, [id |-> 4, init |-> 5]),
           Nd(4, "Identifier", 3, [name |-> "Foo"]),
           Nd(5, "CallExpression", 3, [callee |-> 6, arguments |-> <<7>>,
                                       pragmaImport |-> name = "memo"]),
           Nd(6, "Identifier", 5, [name |-> name])>>
         \o Fn(7, 5, f)

\* the program of one placed function, followed by  name.propTypes = {}
\* (Foo.propTypes = {} after a call)
Shape(place, name, f) ==
  <<Nd(1, "Program", 0, None)>>
  \o Placed(place, name, f)
  \o <<Nd(Len(Placed(place, name, f)) + 2, "ExpressionStatement", 1, None),
       Nd(Len(Placed(place, name, f)) + 3, "AssignmentExpression",
          Len(Placed(place, name, f)) + 2,
          [left |-> Len(Placed(place, name, f)) + 4, right |-> Len(Placed(place, name, f)) + 7]),
       Nd(Len(Placed(place, name, f)) + 4, "MemberExpression", Len(Placed(place, name, f)) + 3,
          [object |-> Len(Placed(place, name, f)) + 5,
           property |-> Len(Placed(place, name, f)) + 6]),
       Nd(Len(Placed(place, name, f)) + 5, "Identifier", Len(Placed(place, name, f)) + 4,
          [name |-> IF place = "call" THEN "Foo" ELSE name]),
       Nd(Len(Placed(place, name, f)) + 6, "Identifier", Len(Placed(place, name, f)) + 4,
          [name |-> "propTypes"]),
       Nd(Len(Placed(place, name, f)) + 7, "ObjectExpression", Len(Placed(place, name, f)) + 3,
          None)>>

\* the functions placed: arrows are unnamed and never generators
Fns ==
  {f \in [type : {"FunctionExpression", "ArrowFunctionExpression"},
          id : {"", "Bar", "bar"}, returns : {"jsx", "null", "other"},
          params : {0, 1}, banned : BOOLEAN] :
     /\ f.type = "ArrowFunctionExpression" => (f.id = "" /\ ~f.banned)
     /\ f.banned => f.returns = "jsx"}

\* the parameter `props` is varied where the key of a property is looked at
Shapes ==
  {Shape(place, name, f) :
     place \in {"declaration", "declarator", "assignment", "member"},
     name \in {"Foo", "foo"}, f \in {g \in Fns : g.params = 0}}
  \cup {Shape(place, name, f) :
          place \in {"property", "computed"}, name \in {"Foo", "foo"}, f \in Fns}
  \cup {Shape("export", name, f) :
          name \in {"Foo", "foo", ""}, f \in {g \in Fns : g.params = 0}}
  \cup {Shape("method", name, f) :
          name \in {"Foo", "foo"}, f \in {g \in Fns : g.type = "FunctionExpression" /\ g.id = ""}}
  \cup {Shape("call", name, f) :
          name \in {"memo", "foo"},
          f \in {g \in Fns : g.params = 0}
                \cup {[type |-> "Identifier", id |-> "", returns |-> "other",
                       params |-> 0, banned |-> FALSE]}}

\* function Foo(props) { const a = props.a.b; function g() {}
\*   function h() { const b = props.b }  return <div>{a.c}{b.c}</div> }
\* with name for the b that h declares
AliasScopes(name) ==
  <<Nd(1, "Program", 0, None),
    Nd(2, "FunctionDeclaration", 1, [id |-> 3, params |-> <<4>>, body |-> 5, returnsJSX |-> TRUE]),
    Nd(3, "Identifier", 2, [name |-> "Foo"]),
    Nd(4, "Identifier", 2, [name |-> "props"]),
    Nd(5, "BlockStatement", 2, [bodyList |-> <<6, 14, 17, 26>>]),
    Nd(6, "VariableDeclaration", 5, [kind |-> "const"]),
    Nd(7, "VariableDeclarator", 6, [id |-> 8, init |-> 9]),
    Nd(8, "Identifier", 7, [name |-> "a"]),
    Nd(9, "MemberExpression", 7, [object |-> 10, property |-> 13]),
    Nd(10, "MemberExpression", 9, [object |-> 11, property |-> 12]),
    Nd(11, "Identifier", 10, [name |-> "props"]),
    Nd(12, "Identifier", 10, [name |-> "a"]),
    Nd(13, "Identifier", 9, [name |-> "b"]),
    Nd(14, "FunctionDeclaration", 5, [id |-> 15, body |-> 16]),
    Nd(15, "Identifier", 14, [name |-> "g"]),
    Nd(16, "BlockStatement", 14, None),
    Nd(17, "FunctionDeclaration", 5, [id |-> 18, body |-> 19]),
    Nd(18, "Identifier", 17, [name |-> "h"]),
    Nd(19, "BlockStatement", 17, [bodyList |-> <<20>>]),
    Nd(20, "VariableDeclaration", 19, [kind |-> "const"]),
    Nd(21, "VariableDeclarator", 20, [id |-> 22, init |-> 23]),
    Nd(22, "Identifier", 21, [name |-> name]),
    Nd(23, "MemberExpression", 21, [object |-> 24, property |-> 25]),
    Nd(24, "Identifier", 23, [name |-> "props"]),
    Nd(25, "Identifier", 23, [name |-> "b"]),
    Nd(26, "ReturnStatement", 5, [argument |-> 27]),
    Nd(27, "JSXElement", 26, [name |-> "div"]),
    Nd(28, "JSXExpressionContainer", 27, None),
    Nd(29, "MemberExpression", 28, [object |-> 30, property |-> 31]),
    Nd(30, "Identifier", 29, [name |-> "a"]),
    Nd(31, "Identifier", 29, [name |-> "c"]),
    Nd(32, "JSXExpressionContainer", 27, None),
    Nd(33, "MemberExpression", 32, [object |-> 34, property |-> 35]),
    Nd(34, "Identifier", 33, [name |-> "b"]),
    Nd(35, "Identifier", 33, [name |-> "c"])>>

\* function Foo(props) { const a = props.a.b; function g() { a.c }  return <div/> }
AliasNested ==
  <<Nd(1, "Program", 0, None),
    Nd(2, "FunctionDeclaration", 1, [id |-> 3, params |-> <<4>>, body |-> 5, returnsJSX |-> TRUE]),
    Nd(3, "Identifier", 2, [name |-> "Foo"]),
    Nd(4, "Identifier", 2, [name |-> "props"]),
    Nd(5, "BlockStatement", 2, [bodyList |-> <<6, 14, 21>>]),
    Nd(6, "VariableDeclaration", 5, [kind |-> "const"]),
    Nd(7, "VariableDeclarator", 6, [id |-> 8, init |-> 9]),
    Nd(8, "Identifier", 7, [name |-> "a"]),
    Nd(9, "MemberExpression", 7, [object |-> 10, property |-> 13]),
    Nd(10, "MemberExpression", 9, [object |-> 11, property |-> 12]),
    Nd(11, "Identifier", 10, [name |-> "props"]),
    Nd(12, "Identifier", 10, [name |-> "a"]),
    Nd(13, "Identifier", 9, [name |-> "b"]),
    Nd(14, "FunctionDeclaration", 5, [id |-> 15, body |-> 16]),
    Nd(15, "Identifier", 14, [name |-> "g"]),
    Nd(16, "BlockStatement", 14, [bodyList |-> <<17>>]),
    Nd(17, "ExpressionStatement", 16, None),
    Nd(18, "MemberExpression", 17, [object |-> 19, property |-> 20]),
    Nd(19, "Identifier", 18, [name |-> "a"]),
    Nd(20, "Identifier", 18, [name |-> "c"]),
    Nd(21, "ReturnStatement", 5, [argument |-> 22]),
    Nd(22, "JSXElement", 21, [name |-> "div"])>>

\* class Foo extends Component { render() { return <div>{this.props.x}{this.props.x}</div> } }
ClassPropsTwice ==
  <<Nd(1, "Program", 0, None),
    Nd(2, "ClassDeclaration", 1, [id |-> 3, body |-> 5, es6Component |-> TRUE]),
    Nd(3, "Identifier", 2, [name |-> "Foo"]),
    Nd(4, "Identifier", 2, [name |-> "Component"]),
    Nd(5, "ClassBody", 2, [bodyList |-> <<6>>]),
    Nd(6, "MethodDefinition", 5, [key |-> 7, value |-> 8, kind |-> "method"]),
    Nd(7, "Identifier", 6, [name |-> "render"]),
    Nd(8, "FunctionExpression", 6, [body |-> 9, returnsJSX |-> TRUE]),
    Nd(9, "BlockStatement", 8, [bodyList |-> <<10>>]),
    Nd(10, "ReturnStatement", 9, [argument |-> 11]),
    Nd(11, "JSXElement", 10, [name |-> "div"]),
    Nd(12, "JSXExpressionContainer", 11, None),
    Nd(13, "MemberExpression", 12, [object |-> 14, property |-> 17]),
    Nd(14, "MemberExpression", 13, [object |-> 15, property |-> 16]),
    Nd(15, "ThisExpression", 14, None),
    Nd(16, "Identifier", 14, [name |-> "props"]),
    Nd(17, "Identifier", 13, [name |-> "x"]),
    Nd(18, "JSXExpressionContainer", 11, None),
    Nd(19, "MemberExpression", 18, [object |-> 20, property |-> 23]),
    Nd(20, "MemberExpression", 19, [object |-> 21, property |-> 22]),
    Nd(21, "ThisExpression", 20, None),
    Nd(22, "Identifier", 20, [name |-> "props"]),
    Nd(23, "Identifier", 19, [name |-> "x"])>>

\* function Foo(props) { return <div>{props.x}{props.x}</div> }
PropsTwice ==
  <<Nd(1, "Program", 0, None),
    Nd(2, "FunctionDeclaration", 1, [id |-> 3, params |-> <<4>>, body |-> 5, returnsJSX |-> TRUE]),
    Nd(3, "Identifier", 2, [name |-> "Foo"]),
    Nd(4, "Identifier", 2, [name |-> "props"]),
    Nd(5, "BlockStatement", 2, [bodyList |-> <<6>>]),
    Nd(6, "ReturnStatement", 5, [argument |-> 7]),
    Nd(7, "JSXElement", 6, [name |-> "div"]),
    Nd(8, "JSXExpressionContainer", 7, None),
    Nd(9, "MemberExpression", 8, [object |-> 10, property |-> 11]),
    Nd(10, "Identifier", 9, [name |-> "props"]),
    Nd(11, "Identifier", 9, [name |-> "x"]),
    Nd(12, "JSXExpressionContainer", 7, None),
    Nd(13, "MemberExpression", 12, [object |-> 14, property |-> 15]),
    Nd(14, "Identifier", 13, [name |-> "props"]),
    Nd(15, "Identifier", 13, [name |-> "x"])>>

\* function Foo({a, ...rest}) { return <div {...{}}/> }     (argument = "ObjectExpression")
\* function Foo({a, ...rest}) { return <div {...rest}/> }   (argument = "Identifier")
SpreadAfterRest(argument) ==
  <<Nd(1, "Program", 0, None),
    Nd(2, "FunctionDeclaration", 1,
       [id |-> 3, params |-> <<4>>, body |-> 10, returnsJSX |-> TRUE]),
    Nd(3, "Identifier", 2, [name |-> "Foo"]),
    Nd(4, "ObjectPattern", 2, [properties |-> <<5, 8>>]),
    Nd(5, "Property", 4, [key |-> 6, value |-> 7, kind |-> "init"]),
    Nd(6, "Identifier", 5, [name |-> "a"]),
    Nd(7, "Identifier", 5, [name |-> "a"]),
    Nd(8, "RestElement", 4, [argument |-> 9]),
    Nd(9, "Identifier", 8, [name |-> "rest"]),
    Nd(10, "BlockStatement", 2, [bodyList |-> <<11>>]),
    Nd(11, "ReturnStatement", 10, [argument |-> 12]),
    Nd(12, "JSXElement", 11, [name |-> "div"]),
    Nd(13, "JSXSpreadAttribute", 12, [argument |-> 14]),
    IF argument = "Identifier"
    THEN Nd(14, "Identifier", 13, [name |-> "rest"])
    ELSE Nd(14, "ObjectExpression", 13, None)>>

\* the trees the walk is run over
Programs ==
  {MemoForwardRef, ReactMemoForwardRef, ThisInSFC, DestructuredLocal,
   PropsMember, LifeCycleKey, ClassComponent, Es5Component,
   ClassPropsMember, ComputedMember, AliasNested, ClassPropsTwice, PropsTwice}
  \cup {AliasScopes(name) : name \in {"a", "b"}}
  \cup {SpreadAfterRest(argument) : argument \in {"ObjectExpression", "Identifier"}}
  \cup {DestructuredParam(name, stop) : name \in {"foo", "Foo"}, stop \in {"rest", "computed"}}
  \cup Shapes

Nodes == DOMAIN ast
Keys == {ast[n].range : n \in Nodes}

-----------------------------------------------------------------------------
(* Usage facts (Prop) *)

\* Array.prototype.join('') over a list of names
RECURSIVE join(_)
join(names) == IF names = <<>> THEN "" ELSE Head(names) \o join(Tail(names))

Fact(n, all, k) == [name |-> n, hasAllNames |-> TRUE, allNames |-> all, kind |-> k]

usedPropTypesAreEquivalent(propA, propB) ==
  IF propA.name = propB.name
  THEN IF ~propA.hasAllNames /\ ~propB.hasAllNames THEN TRUE
       ELSE IF propA.hasAllNames /\ propB.hasAllNames
               /\ join(propA.allNames) = join(propB.allNames) THEN TRUE
       ELSE FALSE
  ELSE FALSE

mergeUsedPropTypes_NoDedup(propsList, newPropsList) == propsList \o newPropsList

mergeUsedPropTypes(propsList, newPropsList) ==
  LET newPropIsAlreadyInTheList(newProp) ==
        \E i \in 1..Len(propsList) : usedPropTypesAreEquivalent(propsList[i], newProp)
      propsToAdd == SelectSeq(newPropsList, LAMBDA newProp : ~newPropIsAlreadyInTheList(newProp))
  IN  propsList \o propsToAdd

-----------------------------------------------------------------------------
(* The registry.  A record's usedPropTypes is <<>> and hasUsedPropTypes   *)
(* is FALSE while the field is undefined (the registry reads it as         *)
(* `usedPropTypes || []`); its ignore flag is FALSE while undefined         *)
(* (`|| false`).                                                           *)

NoComponent ==
  [node |-> 0, confidence |-> -1, usedPropTypes |-> <<>>, hasUsedPropTypes |-> FALSE,
   ignoreUnusedPropTypesValidation |-> FALSE, hasDisplayName |-> FALSE]

NewComponents == [list |-> <<>>, order |-> <<>>]

\* the source-range key of a node; '' (0) for a missing node
getId(node) == IF node # 0 THEN ast[node].range ELSE 0

Max(a, b) == IF a >= b THEN a ELSE b

has(C, id) == id \in DOMAIN C.list

combine_LastWins(old, confidence) == confidence

combine_ZeroNotSticky(old, confidence) ==
  IF confidence = 0 THEN 0 ELSE Max(old, confidence)

\* the confidence combination rule of add on an existing record
combine(old, confidence) ==
  IF confidence = 0 \/ old = 0 THEN 0 ELSE Max(old, confidence)

add(C, node, confidence) ==
  LET id == getId(node) IN
  IF has(C, id)
  THEN [C EXCEPT !.list[id].confidence = combine(@, confidence)]
  ELSE [C EXCEPT !.list = @ @@ (id :> [NoComponent EXCEPT !.node = node, !.confidence = confidence]),
                 !.order = Append(@, id)]

get_AnyConfidence(C, node) ==
  LET id == getId(node) IN IF has(C, id) THEN C.list[id] ELSE NoComponent

get(C, node) ==
  LET id == getId(node) IN
  IF has(C, id) /\ C.list[id].confidence >= 1 THEN C.list[id] ELSE NoComponent

\* the loop of set: the key of the record set updates, 0 when the climb
\* runs off the root
RECURSIVE setTarget_AnyRecord(_, _)
setTarget_AnyRecord(C, node) ==
  IF has(C, getId(node)) THEN getId(node)
  ELSE IF ast[node].parent = 0 THEN 0
  ELSE setTarget_AnyRecord(C, ast[node].parent)

RECURSIVE setTarget(_, _)
setTarget(C, node) ==
  IF has(C, getId(node)) /\ C.list[getId(node)].confidence >= 1 THEN getId(node)
  ELSE IF ast[node].parent = 0 THEN 0
  ELSE setTarget(C, ast[node].parent)

\* Object.assign(component, props, {usedPropTypes: merged}); props is a
\* record holding only the fields the caller passes
assign(component, props) ==
  [f \in DOMAIN component |->
     IF f = "usedPropTypes"
     THEN mergeUsedPropTypes(component.usedPropTypes,
                             IF "usedPropTypes" \in DOMAIN props THEN props.usedPropTypes ELSE <<>>)
     ELSE IF f = "hasUsedPropTypes" THEN TRUE
     ELSE IF f \in DOMAIN props THEN props[f] ELSE component[f]]

set(C, node, props) ==
  LET t == setTarget(C, node) IN
  IF t = 0 THEN C ELSE [C EXCEPT !.list[t] = assign(@, props)]

\* the climb of list's first phase: the first ancestor get returns, unless a
\* Decorator is met first
RECURSIVE findAncestor(_, _)
findAncestor(C, node) ==
  IF ast[node].parent = 0 THEN NoComponent
  ELSE LET p == ast[node].parent IN
       IF ast[p].type = "Decorator" THEN NoComponent
       ELSE IF get(C, p) # NoComponent THEN get(C, p)
       ELSE findAncestor(C, p)

notInit(propType) == propType.kind # "init"

\* one round of list's first loop: record i, and the component the climb
\* from it found
stage(C, i, component, usedPropTypes) ==
  LET componentId == getId(component.node)
      newUsedProps == SelectSeq(C.list[i].usedPropTypes, notInit)
  IN  IF C.list[i].confidence < 2 /\ component # NoComponent
      THEN [k \in DOMAIN usedPropTypes \cup {componentId} |->
              IF k = componentId
              THEN mergeUsedPropTypes(IF componentId \in DOMAIN usedPropTypes
                                      THEN usedPropTypes[componentId] ELSE <<>>,
                                      newUsedProps)
              ELSE usedPropTypes[k]]
      ELSE usedPropTypes

\* first phase of list: props used in components for which we are not
\* confident, staged under the id of the component found by the climb
RECURSIVE stageUsedPropTypes(_, _, _)
stageUsedPropTypes(C, keys, usedPropTypes) ==
  IF keys = <<>> THEN usedPropTypes
  ELSE stageUsedPropTypes(C, Tail(keys),
         stage(C, Head(keys), findAncestor(C, C.list[Head(keys)].node), usedPropTypes))

\* the filter of list's second phase
isConfident(component) == component.confidence >= 2

\* second phase of list: the staged props are assigned to the stored records
\* of the confident components
assignStaged(C, usedPropTypes) ==
  [C EXCEPT !.list =
     [j \in DOMAIN C.list |->
        IF isConfident(C.list[j]) /\ getId(C.list[j].node) \in DOMAIN usedPropTypes
        THEN [C.list[j] EXCEPT !.usedPropTypes =
                mergeUsedPropTypes(@, usedPropTypes[getId(C.list[j].node)]),
                                 !.hasUsedPropTypes = TRUE]
        ELSE C.list[j]]]

\* the registry after list()
listMerge(C) == assignStaged(C, stageUsedPropTypes(C, C.order, <<>>))

\* the confident records of the registry M
confident(M) == [j \in {k \in DOMAIN M.list : isConfident(M.list[k])} |-> M.list[j]]

\* what list() returns: the confident records, as they are after the merge
list(C) == confident(listMerge(C))

length_Tentative(C) == Cardinality({k \in DOMAIN C.list : C.list[k].confidence >= 1})

length(C) == Cardinality({k \in DOMAIN C.list : C.list[k].confidence >= 2})

-----------------------------------------------------------------------------
(* Node predicates (lib/util/ast.js).  N(0) stands for a missing node.     *)

N(node) == IF node = 0 THEN NodeDefaults ELSE ast[node] @@ NodeDefaults

\* 'name' in node
hasName(node) == N(node).type \in {"Identifier", "JSXIdentifier", "PrivateIdentifier"}

isFunctionLikeExpression(node) ==
  N(node).type \in {"FunctionExpression", "ArrowFunctionExpression"}

isFunctionLike(node) ==
  N(node).type = "FunctionDeclaration" \/ isFunctionLikeExpression(node)

isCallExpression(node) == N(node).type = "CallExpression"

isMemberExpression(node) ==
  N(node).type \in {"MemberExpression", "OptionalMemberExpression"}

isObjectPattern(node) == N(node).type = "ObjectPattern"

isVariableDeclarator(node) == N(node).type = "VariableDeclarator"

unwrapTSAsExpression(node) ==
  IF N(node).type = "TSAsExpression" THEN N(node).expression ELSE node

RECURSIVE uncast(_)
uncast(node) ==
  IF N(node).type = "TypeCastExpression" THEN uncast(N(node).expression) ELSE node

isThisExpression(node) == N(unwrapTSAsExpression(uncast(node))).type = "ThisExpression"

isAssignmentLHS(node) ==
  LET parent == N(node).parent IN
  parent # 0 /\ N(parent).type = "AssignmentExpression" /\ N(parent).left = node

\* the blocks of the scopes sourceCode.getScope(node) and its .upper chain
\* yield: the functions, classes and Program on the path from node to the root
RECURSIVE getScope(_)
getScope(node) ==
  IF node = 0 THEN <<>>
  ELSE IF N(node).type \in {"FunctionDeclaration", "FunctionExpression", "ArrowFunctionExpression",
                            "ClassDeclaration", "ClassExpression", "Program"}
       THEN <<node>> \o getScope(N(node).parent)
  ELSE getScope(N(node).parent)

inConstructor(node) ==
  \E i \in 1..Len(getScope(node)) : N(N(getScope(node)[i]).parent).kind = "constructor"

-----------------------------------------------------------------------------
(* Helpers of the engine that live outside Components.js and              *)
(* usedPropTypes.js                                                        *)

pragma == "React"

CapitalizedNames == {"Foo", "A", "Bar"}

isFirstLetterCapitalized(word) == word \in CapitalizedNames

isReturningJSX(node) == N(node).returnsJSX

isReturningJSXOrNull(node) == N(node).returnsJSX \/ N(node).returnsNull

isReturningOnlyNull(node) == N(node).returnsNull /\ ~N(node).returnsJSX

isDestructuredFromPragmaImport(node, variable) == N(node).pragmaImport

isES6Component(node) == N(node).es6Component

isES5Component(node) == N(node).es5Component

\* the nearest enclosing class when it is an ES6 component, else null (0)
getParentES6Component(node) ==
  LET classes == SelectSeq(getScope(node),
                   LAMBDA b : N(b).type \in {"ClassDeclaration", "ClassExpression"})
  IN  IF classes # <<>> /\ isES6Component(Head(classes)) THEN Head(classes) ELSE 0

\* the first scope block whose grandparent is an ES5 component, else null (0)
getParentES5Component(node) ==
  LET found == SelectSeq(getScope(node),
                 LAMBDA b : N(N(b).parent).parent # 0 /\ isES5Component(N(N(b).parent).parent))
  IN  IF found # <<>> THEN N(N(Head(found)).parent).parent ELSE 0

-----------------------------------------------------------------------------
(* createPropVariables (lib/util/usedPropTypes.js).  maps is the heap of   *)
(* Map objects; propVariables and the stack entries refer to a Map by its  *)
(* index, so that two references to one Map see each other's writes.       *)

NewPropVariables ==
  [maps |-> << <<>> >>, propVariables |-> 1, hasBeenWritten |-> FALSE,
   stack |-> <<[propVariables |-> 1, hasBeenWritten |-> FALSE]>>]

pushScope(P) ==
  [P EXCEPT !.stack = Append(@, [propVariables |-> P.propVariables, hasBeenWritten |-> FALSE])]

popScope(P) ==
  LET stack == SubSeq(P.stack, 1, Len(P.stack) - 1) IN
  [P EXCEPT !.stack = stack,
            !.propVariables = stack[Len(stack)].propVariables,
            !.hasBeenWritten = stack[Len(stack)].hasBeenWritten]

propVariablesSet(P, name, allNames) ==
  LET copy == Len(P.maps) + 1
      Q == IF ~P.hasBeenWritten
           THEN [P EXCEPT !.maps = Append(@, P.maps[P.propVariables]),
                          !.propVariables = copy,
                          !.stack[Len(P.stack)] = [propVariables |-> copy, hasBeenWritten |-> TRUE]]
           ELSE P
  IN  [Q EXCEPT !.maps[Q.propVariables] =
         [n \in DOMAIN @ \cup {name} |-> IF n = name THEN allNames ELSE @[n]]]

propVariablesHas(P, name) == name \in DOMAIN P.maps[P.propVariables]

propVariablesGet(P, name) == P.maps[P.propVariables][name]

-----------------------------------------------------------------------------
(* The used-props tracker (lib/util/usedPropTypes.js)                      *)

LIFE_CYCLE_METHODS ==
  {"componentWillReceiveProps", "shouldComponentUpdate", "componentWillUpdate", "componentDidUpdate"}

ASYNC_SAFE_LIFE_CYCLE_METHODS ==
  {"getDerivedStateFromProps", "getSnapshotBeforeUpdate",
   "UNSAFE_componentWillReceiveProps", "UNSAFE_componentWillUpdate"}

\* testReactVersion(context, '>= 16.3.0') with no react version configured
checkAsyncSafeLifeCycles == TRUE

ObjectPrototype ==
  {"constructor", "hasOwnProperty", "isPrototypeOf", "propertyIsEnumerable",
   "toLocaleString", "toString", "valueOf", "__proto__"}

isCommonVariableNameForProps(name) == name \in {"props", "nextProps", "prevProps"}

isLifeCycleName(name) ==
  \/ name \in LIFE_CYCLE_METHODS
  \/ checkAsyncSafeLifeCycles /\ name \in ASYNC_SAFE_LIFE_CYCLE_METHODS

inLifeCycleMethod(node) ==
  \E i \in 1..Len(getScope(node)) :
    LET block == getScope(node)[i] IN
    /\ N(block).parent # 0
    /\ N(N(block).parent).key # 0
    /\ hasName(N(N(block).parent).key)
    /\ isLifeCycleName(N(N(N(block).parent).key).name)

isNodeALifeCycleMethod(node) ==
  /\ N(node).key # 0
  /\ \/ N(node).kind = "constructor"
     \/ hasName(N(node).key) /\ isLifeCycleName(N(N(node).key).name)

RECURSIVE isInLifeCycleMethod(_)
isInLifeCycleMethod(node) ==
  IF N(node).type \in {"MethodDefinition", "Property"} /\ isNodeALifeCycleMethod(node) THEN TRUE
  ELSE IF N(node).parent # 0 THEN isInLifeCycleMethod(N(node).parent)
  ELSE FALSE

\* the callee of the call `parent` is <something>.setState
isSetStateCall(parent) ==
  LET callee == unwrapTSAsExpression(N(parent).callee) IN
  /\ isCallExpression(parent)
  /\ N(callee).property # 0
  /\ hasName(N(callee).property)
  /\ N(N(callee).property).name = "setState"

isSetStateUpdater(node) ==
  /\ isSetStateCall(N(node).parent)
  /\ N(N(node).parent).arguments # <<>>
  /\ N(N(node).parent).arguments[1] = node

isPropArgumentInSetStateUpdater(node, name) ==
  LET updaters == SelectSeq(getScope(node), LAMBDA block :
                    /\ isSetStateCall(N(block).parent)
                    /\ N(N(block).parent).arguments[1] = block
                    /\ Len(N(block).params) > 1)
  IN  /\ updaters # <<>>
      /\ hasName(N(Head(updaters)).params[2])
      /\ N(N(Head(updaters)).params[2]).name = name

isInClassComponent(node) ==
  getParentES6Component(node) # 0 \/ getParentES5Component(node) # 0

isThisDotProps(node) ==
  /\ isMemberExpression(node)
  /\ isThisExpression(unwrapTSAsExpression(N(node).object))
  /\ hasName(N(node).property)
  /\ N(N(node).property).name = "props"

\* the first token of the node is '...'
hasSpreadOperator(node) ==
  N(node).type \in {"RestElement", "SpreadElement", "ExperimentalRestProperty",
                    "ExperimentalSpreadProperty"}

getKeyValue(node) ==
  LET key == IF N(node).key # 0 THEN N(node).key ELSE N(node).argument IN
  IF key = 0 THEN ""
  ELSE IF N(key).type = "Identifier" THEN N(key).name
  ELSE IF N(key).type = "Literal" THEN N(key).raw
  ELSE ""

isPropTypesUsageByMemberExpression(node) ==
  LET unwrappedObjectNode == unwrapTSAsExpression(N(node).object) IN
  IF ~hasName(unwrappedObjectNode) THEN FALSE
  ELSE IF isInClassComponent(node)
  THEN \/ isThisDotProps(unwrappedObjectNode)
       \/ /\ isCommonVariableNameForProps(N(unwrappedObjectNode).name)
          /\ (inLifeCycleMethod(node) \/ inConstructor(node))
       \/ isPropArgumentInSetStateUpdater(node, N(unwrappedObjectNode).name)
  ELSE N(unwrappedObjectNode).name = "props" /\ ~isAssignmentLHS(node)

getPropertyName_IgnoresComputed(node) ==
  IF N(N(node).property).type = "Identifier" THEN N(N(node).property).name ELSE ""

\* "" stands for undefined
getPropertyName(node) ==
  LET property == N(node).property IN
  IF property = 0 THEN ""
  ELSE IF isMemberExpression(property) THEN ""
  ELSE IF N(property).type = "Identifier"
  THEN IF N(node).computed THEN "__COMPUTED_PROP__" ELSE N(property).name
  ELSE IF N(property).type = "Literal" /\ N(property).kind = "string" THEN N(property).raw
  ELSE IF /\ N(property).type = "Literal" /\ N(property).kind = "number"
          /\ isPropTypesUsageByMemberExpression(node)
  THEN N(property).raw
  ELSE IF N(node).computed THEN "__COMPUTED_PROP__"
  ELSE ""

-----------------------------------------------------------------------------
(* While a handler runs, the registry carries the arrays the handler holds  *)
(* references to: heap is the sequence of usedPropTypes arrays in use and   *)
(* stored[k] is the index of the array that is record k's usedPropTypes     *)
(* field.  A push into that array changes the record; an assignment to the  *)
(* field (by set or list) makes a new array the record's.                   *)

Running(C) == [list |-> C.list, order |-> C.order, heap |-> <<>>, stored |-> <<>>]

\* `(component && component.usedPropTypes) || []`
usedPropTypesOf(C, component) ==
  LET k == getId(component.node)
      new == Len(C.heap) + 1
  IN  IF component # NoComponent /\ component.hasUsedPropTypes
      THEN IF k \in DOMAIN C.stored THEN [r |-> C.stored[k], C |-> C]
           ELSE [r |-> new,
                 C |-> [C EXCEPT !.heap = Append(@, C.list[k].usedPropTypes),
                                 !.stored = [j \in DOMAIN @ \cup {k} |->
                                               IF j = k THEN new ELSE @[j]]]]
      ELSE [r |-> new, C |-> [C EXCEPT !.heap = Append(@, <<>>)]]

\* usedPropTypes.push(fact) on the array r
push(C, r, fact) ==
  [C EXCEPT !.heap[r] = Append(@, fact),
            !.list = [k \in DOMAIN @ |->
                        IF k \in DOMAIN C.stored /\ C.stored[k] = r
                        THEN [@[k] EXCEPT !.usedPropTypes = Append(@, fact)]
                        ELSE @[k]]]

\* the record t that set updated gets a new array; D is the registry after
\* the set
reallocate(D, t) ==
  IF t = 0 THEN D
  ELSE [D EXCEPT !.heap = Append(@, D.list[t].usedPropTypes),
                 !.stored = [j \in DOMAIN @ \cup {t} |-> IF j = t THEN Len(D.heap) + 1 ELSE @[j]]]

\* components.set(node, props)
setCall(C, node, props) == reallocate(set(C, node, props), setTarget(C, node))

\* the second phase of list gives the confident records with staged props
\* a new array
reassign(C, usedPropTypes) ==
  [assignStaged(C, usedPropTypes) EXCEPT !.stored =
     [j \in DOMAIN @ \ {k \in DOMAIN C.list :
                          /\ isConfident(C.list[k])
                          /\ getId(C.list[k].node) \in DOMAIN usedPropTypes} |-> @[j]]]

\* components.list()
listCall(C) == reassign(C, stageUsedPropTypes(C, C.order, <<>>))

-----------------------------------------------------------------------------
(* componentRule: the detection utilities.  An operator that may call     *)
(* components.list() returns [v |-> its result, C |-> the registry after]. *)
(* A value that a function computes once and reads several times is       *)
(* handed as an argument to the operator that models the rest of the       *)
(* function.                                                               *)

\* settings.componentWrapperFunctions is empty: the two default wrappers
wrapperFunctions ==
  <<[property |-> "forwardRef", object |-> pragma], [property |-> "memo", object |-> pragma]>>

\* "" stands for null
getComponentNameFromJSXElement(node) ==
  IF N(node).type # "JSXElement" THEN "" ELSE N(node).name

getNameOfWrappedComponent(arguments) ==
  LET body == IF Len(arguments) < 1 THEN 0 ELSE N(arguments[1]).body
      jsxElement == SelectSeq(N(body).bodyList, LAMBDA item : N(item).type = "ReturnStatement")
  IN  IF body = 0 THEN ""
      ELSE IF N(body).type = "JSXElement" THEN getComponentNameFromJSXElement(body)
      ELSE IF /\ N(body).type = "BlockStatement"
              /\ jsxElement # <<>> /\ N(Head(jsxElement)).argument # 0
      THEN getComponentNameFromJSXElement(N(Head(jsxElement)).argument)
      ELSE ""

\* the filter and map of getDetectedComponents over the registry M that
\* components.list() leaves: the names of the class declarations and of
\* the variables initialised with an arrow function ("" for no name)
detectedIn(M) ==
  [v |-> {IF N(M.list[k].node).type = "ArrowFunctionExpression"
          THEN N(N(N(M.list[k].node).parent).id).name
          ELSE N(N(M.list[k].node).id).name :
            k \in {j \in DOMAIN M.list :
                     /\ isConfident(M.list[j])
                     /\ \/ N(M.list[j].node).type = "ClassDeclaration"
                        \/ /\ N(M.list[j].node).type = "ArrowFunctionExpression"
                           /\ N(N(M.list[j].node).parent).type = "VariableDeclarator"
                           /\ N(N(M.list[j].node).parent).id # 0}},
   C |-> M]

getDetectedComponents(C) == detectedIn(listCall(C))

\* componentList.includes(childComponent)
includes(componentList, childComponent) ==
  [v |-> childComponent # "" /\ childComponent \in componentList.v, C |-> componentList.C]

nodeWrapsComponent(C, node) ==
  includes(getDetectedComponents(C), getNameOfWrappedComponent(N(node).arguments))

RECURSIVE someWrapper(_, _, _)

\* `&& !this.nodeWrapsComponent(node)` for wrapper i
unlessWraps(wraps, node, i) ==
  IF ~wraps.v THEN [v |-> TRUE, C |-> wraps.C]
  ELSE someWrapper(wraps.C, node, i + 1)

\* wrapperFunctions.some(...) from wrapper i on
someWrapper(C, node, i) ==
  IF i > Len(wrapperFunctions) THEN [v |-> FALSE, C |-> C]
  ELSE IF isMemberExpression(N(node).callee)
  THEN IF /\ wrapperFunctions[i].object # ""
          /\ hasName(N(N(node).callee).object)
          /\ wrapperFunctions[i].object = N(N(N(node).callee).object).name
          /\ hasName(N(N(node).callee).property)
          /\ wrapperFunctions[i].property = N(N(N(node).callee).property).name
       THEN unlessWraps(nodeWrapsComponent(C, node), node, i)
       ELSE someWrapper(C, node, i + 1)
  ELSE IF /\ hasName(N(node).callee)
          /\ wrapperFunctions[i].property = N(N(node).callee).name
          /\ \/ wrapperFunctions[i].object = ""
             \/ /\ wrapperFunctions[i].object = pragma
                /\ isDestructuredFromPragmaImport(node, N(N(node).callee).name)
  THEN [v |-> TRUE, C |-> C]
  ELSE someWrapper(C, node, i + 1)

isPragmaComponentWrapper(C, node) ==
  IF ~isCallExpression(node) THEN [v |-> FALSE, C |-> C]
  ELSE someWrapper(C, node, 1)

RECURSIVE getPragmaComponentWrapperFrom(_, _, _)

\* the test of the do-while: currentNode is the node just tested
whileWrapper(isPragmaComponentWrapperResult, currentNode, prevNode) ==
  IF isPragmaComponentWrapperResult.v
  THEN getPragmaComponentWrapperFrom(isPragmaComponentWrapperResult.C, currentNode, currentNode)
  ELSE [v |-> prevNode, C |-> isPragmaComponentWrapperResult.C]

\* the do-while of getPragmaComponentWrapper from currentNode on
getPragmaComponentWrapperFrom(C, currentNode, prevNode) ==
  whileWrapper(isPragmaComponentWrapper(C, N(currentNode).parent), N(currentNode).parent, prevNode)

getPragmaComponentWrapper_Innermost(C, node) ==
  [v |-> IF isPragmaComponentWrapper(C, N(node).parent).v THEN N(node).parent ELSE 0,
   C |-> isPragmaComponentWrapper(C, N(node).parent).C]

getPragmaComponentWrapper(C, node) == getPragmaComponentWrapperFrom(C, node, 0)

RECURSIVE isInAllowedPositionForComponent(_)
isInAllowedPositionForComponent(node) ==
  IF N(N(node).parent).type \in
       {"VariableDeclarator", "AssignmentExpression", "Property",
        "ReturnStatement", "ExportDefaultDeclaration", "ArrowFunctionExpression"}
  THEN TRUE
  ELSE IF N(N(node).parent).type = "SequenceExpression"
  THEN /\ isInAllowedPositionForComponent(N(node).parent)
       /\ node = N(N(node).parent).expressions[Len(N(N(node).parent).expressions)]
  ELSE FALSE

isParentComponentNotStatelessComponent_AnyParams(node) ==
  /\ N(node).parent # 0
  /\ N(N(node).parent).key # 0
  /\ N(N(N(node).parent).key).type = "Identifier"
  /\ ~isFirstLetterCapitalized(N(N(N(node).parent).key).name)

isParentComponentNotStatelessComponent(node) ==
  /\ N(node).parent # 0
  /\ N(N(node).parent).key # 0
  /\ N(N(N(node).parent).key).type = "Identifier"
  /\ ~isFirstLetterCapitalized(N(N(N(node).parent).key).name)
  /\ Len(N(node).params) > 0

wrapped_IgnoresOwnName(node, isPropertyAssignment, isModuleExportsAssignment, pragmaComponentWrapper) ==
  IF pragmaComponentWrapper.v # 0 /\ isReturningJSXOrNull(node)
  THEN pragmaComponentWrapper
  ELSE [v |-> IF ~(isInAllowedPositionForComponent(node) /\ isReturningJSXOrNull(node)) THEN 0
              ELSE IF isParentComponentNotStatelessComponent(node) THEN 0
              ELSE IF /\ isPropertyAssignment /\ ~isModuleExportsAssignment
                      /\ hasName(N(N(N(node).parent).left).property)
                      /\ ~isFirstLetterCapitalized(N(N(N(N(node).parent).left).property).name)
              THEN 0
              ELSE IF N(N(node).parent).type = "Property" /\ isReturningOnlyNull(node) THEN 0
              ELSE node,
        C |-> pragmaComponentWrapper.C]

\* getStatelessComponent from `const pragmaComponentWrapper = ...` on
wrapped(node, isPropertyAssignment, isModuleExportsAssignment, pragmaComponentWrapper) ==
  IF pragmaComponentWrapper.v # 0 /\ isReturningJSXOrNull(node)
  THEN pragmaComponentWrapper
  ELSE [v |-> IF ~(isInAllowedPositionForComponent(node) /\ isReturningJSXOrNull(node)) THEN 0
              ELSE IF isParentComponentNotStatelessComponent(node) THEN 0
              ELSE IF N(node).id # 0
              THEN IF isFirstLetterCapitalized(N(N(node).id).name) THEN node ELSE 0
              ELSE IF /\ isPropertyAssignment /\ ~isModuleExportsAssignment
                      /\ hasName(N(N(N(node).parent).left).property)
                      /\ ~isFirstLetterCapitalized(N(N(N(N(node).parent).left).property).name)
              THEN 0
              ELSE IF N(N(node).parent).type = "Property" /\ isReturningOnlyNull(node) THEN 0
              ELSE node,
        C |-> pragmaComponentWrapper.C]

getStatelessComponent_DeclarationReturningJSX(C, node) ==
  [v |-> IF /\ N(node).type = "FunctionDeclaration"
            /\ (N(node).id = 0 \/ isFirstLetterCapitalized(N(N(node).id).name))
            /\ isReturningJSX(node)
         THEN node ELSE 0,
   C |-> C]

getStatelessComponent(C, node) ==
  LET parent == N(N(node).parent)
      functionExpr == N(N(parent.parent).parent)
      \* 'name' in id && isFirstLetterCapitalized(id.name)
      capitalized(id) == hasName(id) /\ isFirstLetterCapitalized(N(id).name)
      isPropertyAssignment ==
        parent.type = "AssignmentExpression" /\ isMemberExpression(parent.left)
      isModuleExportsAssignment ==
        /\ isPropertyAssignment
        /\ hasName(N(parent.left).object)
        /\ N(N(parent.left).object).name = "module"
        /\ hasName(N(parent.left).property)
        /\ N(N(parent.left).property).name = "exports"
  IN  IF /\ N(node).type = "FunctionDeclaration"
         /\ (N(node).id = 0 \/ isFirstLetterCapitalized(N(N(node).id).name))
         /\ isReturningJSXOrNull(node)
      THEN [v |-> node, C |-> C]
      ELSE IF N(node).type \notin {"FunctionExpression", "ArrowFunctionExpression"}
      THEN [v |-> 0, C |-> C]
      ELSE IF parent.type = "ExportDefaultDeclaration"
      THEN [v |-> IF isReturningJSX(node) THEN node ELSE 0, C |-> C]
      ELSE IF parent.type = "VariableDeclarator" /\ isReturningJSXOrNull(node)
      THEN [v |-> IF capitalized(parent.id) THEN node ELSE 0, C |-> C]
      \* case: const any = () => { return (props) => null }
      ELSE IF /\ \/ parent.type = "ReturnStatement"
                 \/ parent.type = "ArrowFunctionExpression" /\ parent.expression
              /\ ~isReturningJSX(node)
      THEN [v |-> 0, C |-> C]
      \* case: any = () => null
      ELSE IF /\ parent.type = "AssignmentExpression"
              /\ ~isPropertyAssignment /\ isReturningJSXOrNull(node)
      THEN [v |-> IF capitalized(parent.left) THEN node ELSE 0, C |-> C]
      \* case: any = () => () => null
      ELSE IF /\ parent.type = "ArrowFunctionExpression"
              /\ N(parent.parent).type = "AssignmentExpression"
              /\ ~isPropertyAssignment /\ isReturningJSXOrNull(node)
      THEN [v |-> IF capitalized(N(parent.parent).left) THEN node ELSE 0, C |-> C]
      \* case: { any: () => () => null }
      ELSE IF /\ parent.type = "ArrowFunctionExpression"
              /\ N(parent.parent).type = "Property"
              /\ ~isPropertyAssignment /\ isReturningJSXOrNull(node)
      THEN [v |-> IF capitalized(N(parent.parent).key) THEN node ELSE 0, C |-> C]
      \* case: any = function() {return function() {return null;};}
      ELSE IF parent.type = "ReturnStatement" /\ capitalized(N(node).id)
      THEN [v |-> node, C |-> C]
      ELSE IF /\ parent.type = "ReturnStatement"
              /\ N(functionExpr.parent).type = "AssignmentExpression"
              /\ ~isPropertyAssignment /\ isReturningJSXOrNull(node)
      THEN [v |-> IF capitalized(N(functionExpr.parent).left) THEN node ELSE 0, C |-> C]
      \* case: { any: function() {return function() {return null;};} }
      ELSE IF /\ parent.type = "ReturnStatement"
              /\ N(functionExpr.parent).type = "Property"
              /\ ~isPropertyAssignment /\ isReturningJSXOrNull(node)
      THEN [v |-> IF capitalized(N(functionExpr.parent).key) THEN node ELSE 0, C |-> C]
      \* for case abc = { [someobject.somekey]: props => { ... return not-jsx } }
      ELSE IF /\ isMemberExpression(parent.key)
              /\ ~isReturningJSX(node) /\ ~isReturningOnlyNull(node)
      THEN [v |-> 0, C |-> C]
      ELSE IF /\ parent.type = "Property"
              /\ \/ parent.method /\ ~parent.computed
                 \/ N(node).id = 0 /\ ~parent.computed
      THEN [v |-> IF capitalized(parent.key) /\ isReturningJSX(node) THEN node ELSE 0, C |-> C]
      \* Case like `React.memo(() => <></>)` or `React.forwardRef(...)`
      ELSE wrapped(node, isPropertyAssignment, isModuleExportsAssignment,
                   getPragmaComponentWrapper(C, node))

RECURSIVE getStatelessComponentOfScopes(_, _)

\* `if (statelessComponent) return statelessComponent; scope = scope.upper`
orUpper(statelessComponent, upper) ==
  IF statelessComponent.v # 0 THEN statelessComponent
  ELSE getStatelessComponentOfScopes(statelessComponent.C, upper)

\* the loop of getParentStatelessComponent over the scope blocks
getStatelessComponentOfScopes(C, scopes) ==
  IF scopes = <<>> THEN [v |-> 0, C |-> C]
  ELSE orUpper(getStatelessComponent(C, Head(scopes)), Tail(scopes))

getParentStatelessComponent(C, node) == getStatelessComponentOfScopes(C, getScope(node))

getParentComponent(C, node) ==
  IF getParentES6Component(node) # 0 THEN [v |-> getParentES6Component(node), C |-> C]
  ELSE IF getParentES5Component(node) # 0 THEN [v |-> getParentES5Component(node), C |-> C]
  ELSE getParentStatelessComponent(C, node)

-----------------------------------------------------------------------------
(* The handlers.  A handler maps the state S of a run                      *)
(* [C, propVariables, thrown, reported] to the state it leaves; a handler   *)
(* that finds S.thrown set does nothing (the exception is propagating).     *)

\* the message of the Error markPropTypesAsUsed throws
notHandled(type) == type \o " ASTNodes are not handled by markPropTypesAsUsed"

RECURSIVE markPropTypesAsUsed(_, _, _)
RECURSIVE markProperties(_, _, _, _, _, _)

\* the value of a destructured property whose fact has been pushed
markValue(S, value, names) ==
  IF N(value).type = "ObjectPattern" THEN markPropTypesAsUsed(S, value, names)
  ELSE IF N(value).type = "Identifier"
  THEN [S EXCEPT !.propVariables = propVariablesSet(@, N(value).name, names)]
  ELSE S

\* the loop over the destructured properties from property k on, pushing
\* into the array r; returns S and the ignore flag the loop leaves
markProperties(S, properties, k, parentNames, r, ignoreUnusedPropTypesValidation) ==
  IF k > Len(properties) \/ S.thrown # ""
  THEN [S |-> S, ignoreUnusedPropTypesValidation |-> ignoreUnusedPropTypesValidation]
  ELSE IF hasSpreadOperator(properties[k]) \/ N(properties[k]).computed
  THEN [S |-> S, ignoreUnusedPropTypesValidation |-> TRUE]
  ELSE IF getKeyValue(properties[k]) = "" \/ N(properties[k]).type # "Property"
  THEN [S |-> S, ignoreUnusedPropTypesValidation |-> ignoreUnusedPropTypesValidation]
  ELSE markProperties(
         markValue([S EXCEPT !.C = push(@, r, Fact(getKeyValue(properties[k]),
                                                   parentNames \o <<getKeyValue(properties[k])>>,
                                                   N(properties[k]).kind))],
                   N(properties[k]).value,
                   parentNames \o <<getKeyValue(properties[k])>>),
         properties, k + 1, parentNames, r, ignoreUnusedPropTypesValidation)

\* Match props.foo.bar, don't match bar[props.foo]
markParent(S, node, allNames) ==
  IF isMemberExpression(N(node).parent) /\ N(N(node).parent).object = node
  THEN markPropTypesAsUsed(S, N(node).parent, allNames) ELSE S

\* Handle the destructuring part of `const {foo} = props.a.b`
markDeclaredPattern(S, parent, allNames) ==
  IF isVariableDeclarator(parent) /\ N(N(parent).id).type = "ObjectPattern"
  THEN markPropTypesAsUsed(S, N(parent).id, allNames) ELSE S

\* const a = props.a
setDeclaredVariable(S, parent, allNames) ==
  IF isVariableDeclarator(parent) /\ N(N(parent).id).type = "Identifier" /\ S.thrown = ""
  THEN [S EXCEPT !.propVariables = propVariablesSet(@, N(N(parent).id).name, allNames)]
  ELSE S

setUsed_OnlyFacts(marked, node, r) ==
  IF marked.S.thrown # "" THEN marked.S
  ELSE [marked.S EXCEPT !.C = setCall(@, node, [usedPropTypes |-> marked.S.C.heap[r]])]

\* components.set(component ? component.node : node, {...}) with the array
\* r; marked is what the branches on type left
setUsed(marked, node, r) ==
  IF marked.S.thrown # "" THEN marked.S
  ELSE [marked.S EXCEPT !.C =
          setCall(@, node,
                  [usedPropTypes |-> marked.S.C.heap[r],
                   ignoreUnusedPropTypesValidation |-> marked.ignoreUnusedPropTypesValidation])]

\* markPropTypesAsUsed from `if (type === 'direct')` on; usedPropTypes is
\* the array the pushes go into
markInto(S, node, parentNames, name, component, usedPropTypes) ==
  LET propParam == IF isSetStateUpdater(node) THEN 2 ELSE 1
      type == IF isMemberExpression(node)
              THEN IF name # "" /\ name # "__COMPUTED_PROP__" THEN "direct" ELSE ""
              ELSE IF isFunctionLike(node)
              THEN IF Len(N(node).params) > 0 THEN "destructuring" ELSE ""
              ELSE IF isObjectPattern(node) THEN "destructuring"
              ELSE ""
      properties ==
        IF isFunctionLike(node)
        THEN IF N(N(node).params[propParam]).type = "AssignmentPattern"
             THEN N(N(N(node).params[propParam]).left).properties
             ELSE N(N(node).params[propParam]).properties
        ELSE N(node).properties
  IN  setUsed(
        IF type = "direct"
        THEN [S |-> IF name \notin ObjectPrototype /\ isMemberExpression(node)
                    THEN [S EXCEPT !.C = push(usedPropTypes.C, usedPropTypes.r,
                                              Fact(name, parentNames \o <<name>>,
                                                   N(N(node).property).kind))]
                    ELSE [S EXCEPT !.C = usedPropTypes.C],
              ignoreUnusedPropTypesValidation |-> component.ignoreUnusedPropTypesValidation]
        ELSE IF type = "destructuring"
        THEN markProperties([S EXCEPT !.C = usedPropTypes.C], properties, 1, parentNames,
                            usedPropTypes.r, component.ignoreUnusedPropTypesValidation)
        ELSE [S |-> [S EXCEPT !.C = usedPropTypes.C],
              ignoreUnusedPropTypesValidation |-> component.ignoreUnusedPropTypesValidation],
        IF component # NoComponent THEN component.node ELSE node,
        usedPropTypes.r)

\* components.get(utils.getParentComponent(node)) and the array of its facts
markIn(S, node, parentNames, name, parentComponent) ==
  markInto(S, node, parentNames, name, get(parentComponent.C, parentComponent.v),
           usedPropTypesOf(parentComponent.C, get(parentComponent.C, parentComponent.v)))

\* markPropTypesAsUsed after the branches on the node's type
markComponent(S, node, parentNames, name) ==
  IF S.thrown # "" THEN S
  ELSE markIn(S, node, parentNames, name, getParentComponent(S.C, node))

\* markPropTypesAsUsed with the name of the member expression ("" when
\* the node is none, or has no name)
markAs(S, node, parentNames, name) ==
  IF /\ ~isMemberExpression(node) /\ ~isFunctionLike(node) /\ ~isObjectPattern(node)
     /\ N(node).type # "TSEmptyBodyFunctionExpression"
  THEN [S EXCEPT !.thrown = notHandled(N(node).type)]
  ELSE IF /\ isFunctionLike(node) /\ Len(N(node).params) > 0
          /\ (IF isSetStateUpdater(node) THEN 2 ELSE 1) > Len(N(node).params)
  \* propParam is undefined: `propParam.type`
  THEN [S EXCEPT !.thrown = "TypeError"]
  ELSE markComponent(
         IF isMemberExpression(node) /\ name # ""
         THEN setDeclaredVariable(
                markDeclaredPattern(markParent(S, node, parentNames \o <<name>>),
                                    N(node).parent, parentNames \o <<name>>),
                N(node).parent, parentNames \o <<name>>)
         ELSE S,
         node, parentNames, name)

markPropTypesAsUsed(S, node, parentNames) ==
  IF S.thrown # "" THEN S
  ELSE markAs(S, node, parentNames,
              IF isMemberExpression(node) THEN getPropertyName(node) ELSE "")

markDestructuredFunctionArgumentsAsUsed(S, node) ==
  LET i == IF isSetStateUpdater(node) THEN 2 ELSE 1
      param == IF i <= Len(N(node).params) THEN N(node).params[i] ELSE 0
      destructuring ==
        \/ N(param).type = "ObjectPattern"
        \/ N(param).type = "AssignmentPattern" /\ N(N(param).left).type = "ObjectPattern"
  IN  IF /\ destructuring
         /\ (get(S.C, node) # NoComponent \/ get(S.C, N(node).parent) # NoComponent)
      THEN markPropTypesAsUsed(S, node, <<>>)
      ELSE S

handleSetStateUpdater(S, node) ==
  IF Len(N(node).params) < 2 \/ ~isSetStateUpdater(node) THEN S
  ELSE markPropTypesAsUsed(S, node, <<>>)

handleFunctionLikeExpressions(S, node) ==
  markDestructuredFunctionArgumentsAsUsed(
    handleSetStateUpdater([S EXCEPT !.propVariables = pushScope(@)], node), node)

\* usedPropTypesInstructions.VariableDeclarator.  The test that follows the
\* search for the props property reads `astUtil`, a name the module never
\* binds: a declarator that gets that far ends in a ReferenceError.
usedVariableDeclarator(S, node) ==
  LET unwrappedInitNode == unwrapTSAsExpression(N(node).init)
      \* let props = this.props
      declared == /\ isThisDotProps(unwrappedInitNode)
                  /\ isInClassComponent(node)
                  /\ N(N(node).id).type = "Identifier"
  IN  [S EXCEPT !.propVariables =
                   IF declared THEN propVariablesSet(@, N(N(node).id).name, <<>>) ELSE @,
                !.thrown =
                   IF N(N(node).id).type # "ObjectPattern" \/ unwrappedInitNode = 0 THEN @
                   ELSE "ReferenceError: astUtil is not defined"]

\* components.set(component ? component.node : node, {...})
setIgnore(S, node, parentComponent) ==
  [S EXCEPT !.C =
     setCall(parentComponent.C,
             IF get(parentComponent.C, parentComponent.v) # NoComponent
             THEN get(parentComponent.C, parentComponent.v).node ELSE node,
             [ignoreUnusedPropTypesValidation |-> N(N(node).argument).type # "ObjectExpression"])]

usedJSXSpreadAttribute(S, node) == setIgnore(S, node, getParentComponent(S.C, node))

usedMemberExpression(S, node) ==
  LET object == unwrapTSAsExpression(N(node).object) IN
  IF isPropTypesUsageByMemberExpression(node) THEN markPropTypesAsUsed(S, node, <<>>)
  ELSE IF hasName(object) /\ propVariablesHas(S.propVariables, N(object).name)
  THEN markPropTypesAsUsed(S, node, propVariablesGet(S.propVariables, N(object).name))
  ELSE S

usedObjectPattern(S, node) ==
  IF isNodeALifeCycleMethod(N(N(node).parent).parent) /\ Len(N(node).properties) > 0
  THEN markPropTypesAsUsed(S, N(node).parent, <<>>)
  ELSE S

\* no record carries declaredPropTypes (the declared-props tracker is not
\* part of the model), so handleCustomValidators returns at once
usedProgramExit(S) == [S EXCEPT !.C = listCall(@)]

(* detectionInstructions *)

\* CallExpression, once isPragmaComponentWrapper has answered
addWrapper(S, node, wrapper) ==
  [S EXCEPT !.C = IF /\ wrapper.v
                     /\ Len(N(node).arguments) > 0
                     /\ isFunctionLikeExpression(N(node).arguments[1])
                  THEN add(wrapper.C, node, 2)
                  ELSE wrapper.C]

detectCallExpression(S, node) == addWrapper(S, node, isPragmaComponentWrapper(S.C, node))

detectClass(S, node) ==
  IF ~isES6Component(node) THEN S ELSE [S EXCEPT !.C = add(@, node, 2)]

detectObjectExpression(S, node) ==
  IF ~isES5Component(node) THEN S ELSE [S EXCEPT !.C = add(@, node, 2)]

\* `if (!component) return; components.add(component, 2)`
addComponent(S, component) ==
  [S EXCEPT !.C = IF component.v = 0 THEN component.C ELSE add(component.C, component.v, 2)]

detectArrowFunctionExpression(S, node) == addComponent(S, getStatelessComponent(S.C, node))

detectFunction_NoBan(S, node) == detectArrowFunctionExpression(S, node)

\* FunctionExpression and FunctionDeclaration
detectFunction(S, node) ==
  IF N(node).async /\ N(node).generator THEN [S EXCEPT !.C = add(@, node, 0)]
  ELSE detectArrowFunctionExpression(S, node)

\* ThisExpression, once getParentStatelessComponent has answered
ban(S, node, component) ==
  [S EXCEPT !.C = IF \/ component.v = 0
                     \/ N(component.v).type \notin {"FunctionDeclaration", "FunctionExpression",
                                                    "ArrowFunctionExpression"}
                     \/ N(N(node).parent).property = 0
                  THEN component.C
                  \* Ban functions accessing a property on a ThisExpression
                  ELSE add(component.C, node, 0)]

detectThisExpression(S, node) == ban(S, node, getParentStatelessComponent(S.C, node))

(* the rule: no-this-in-sfc *)

\* MemberExpression, once getParentStatelessComponent has answered
report(S, node, parentComponent) ==
  [S EXCEPT !.C = parentComponent.C,
            !.reported =
               IF \/ get(parentComponent.C, parentComponent.v) = NoComponent
                  \/ N(N(get(parentComponent.C, parentComponent.v).node).parent).type = "Property"
               THEN @ ELSE @ \cup {node}]

ruleMemberExpression(S, node) ==
  IF ~isThisExpression(N(node).object) THEN S
  ELSE report(S, node, getParentStatelessComponent(S.C, node))

(* Related-component resolution.  The scope manager answers with the      *)
(* variable of a name: its references and its definitions, in source       *)
(* order.  The trees declare each name once, so a name stands for its      *)
(* variable.                                                               *)

\* variable.references: the identifiers that read or write the variable
references(name) ==
  SelectSeq([n \in 1..Len(ast) |-> n], LAMBDA n :
    /\ N(n).type = "Identifier" /\ N(n).name = name
    /\ \/ N(N(n).parent).type = "VariableDeclarator"
          /\ (N(N(n).parent).init = n \/ (N(N(n).parent).id = n /\ N(N(n).parent).init # 0))
       \/ N(N(n).parent).type \in {"MemberExpression", "OptionalMemberExpression"}
          /\ (N(N(n).parent).object = n \/ N(N(n).parent).computed)
       \/ N(N(n).parent).type \in {"AssignmentExpression", "CallExpression", "ReturnStatement",
                                   "ExpressionStatement", "JSXExpressionContainer"})

\* variable.defs, for the variable the scope chain of `node` holds under
\* `name`: the type and node of each definition
defs(node, name) ==
  SelectSeq([n \in 1..Len(ast) |->
               [type |-> IF N(n).type = "VariableDeclarator" THEN "Variable"
                         ELSE IF N(n).type \in {"FunctionDeclaration", "FunctionExpression"}
                         THEN "FunctionName"
                         ELSE IF N(n).type \in {"ClassDeclaration", "ClassExpression"}
                         THEN "ClassName"
                         ELSE IF N(n).type \in {"ImportSpecifier", "ImportDefaultSpecifier"}
                         THEN "ImportBinding"
                         ELSE "",
                name |-> IF N(n).type \in {"ImportSpecifier", "ImportDefaultSpecifier"}
                         THEN N(n).name ELSE N(N(n).id).name,
                node |-> n]],
            LAMBDA def :
              /\ def.type # "" /\ def.name = name /\ name # ""
              /\ IF N(def.node).type = "FunctionExpression"
                 THEN \E i \in 1..Len(getScope(node)) : getScope(node)[i] = def.node
                 ELSE \E i \in 1..Len(getScope(node)) :
                        getScope(node)[i] = Head(getScope(N(def.node).parent)))

\* sourceCode.getText(node) of an identifier or a member expression
RECURSIVE getText(_)
getText(node) ==
  IF N(node).type = "Identifier" THEN N(node).name
  ELSE IF N(node).type = "ThisExpression" THEN "this"
  ELSE IF isMemberExpression(node)
  THEN IF N(node).computed
       THEN getText(N(node).object) \o "[" \o getText(N(node).property) \o "]"
       ELSE getText(N(node).object) \o "." \o getText(N(node).property)
  ELSE "<" \o N(node).type \o ">"

RECURSIVE componentPath_Unreversed(_)
componentPath_Unreversed(nodeTemp) ==
  IF nodeTemp = 0 THEN <<>>
  ELSE (IF N(N(nodeTemp).property).type = "Identifier"
        THEN <<N(N(nodeTemp).property).name>> ELSE <<>>)
       \o (IF isMemberExpression(nodeTemp) /\ N(N(nodeTemp).object).type = "Identifier"
           THEN <<N(N(nodeTemp).object).name>> ELSE <<>>)
       \o (IF isMemberExpression(nodeTemp)
           THEN componentPath_Unreversed(N(nodeTemp).object) ELSE <<>>)

\* the component path of getRelatedComponent, root first
RECURSIVE componentPath(_)
componentPath(nodeTemp) ==
  IF nodeTemp = 0 THEN <<>>
  ELSE (IF isMemberExpression(nodeTemp) THEN componentPath(N(nodeTemp).object) ELSE <<>>)
       \o (IF isMemberExpression(nodeTemp) /\ N(N(nodeTemp).object).type = "Identifier"
           THEN <<N(N(nodeTemp).object).name>> ELSE <<>>)
       \o (IF N(N(nodeTemp).property).type = "Identifier"
           THEN <<N(N(nodeTemp).property).name>> ELSE <<>>)

\* variableInScope.references.some(...): whether a reference matched, and
\* the componentNode it left (0 for undefined)
RECURSIVE relatedByReference(_, _)
relatedByReference(refs, componentName) ==
  IF refs = <<>> THEN [found |-> FALSE, componentNode |-> 0]
  ELSE LET refId == IF isMemberExpression(N(Head(refs)).parent)
                    THEN N(Head(refs)).parent ELSE Head(refs)
       IN  IF getText(refId) # componentName
           THEN relatedByReference(Tail(refs), componentName)
           ELSE [found |-> TRUE,
                 componentNode |->
                   IF isMemberExpression(refId) THEN N(N(refId).parent).right
                   ELSE IF /\ N(N(refId).parent).type = "VariableDeclarator"
                           /\ N(N(refId).parent).init # 0
                           /\ N(N(N(refId).parent).init).type # "Identifier"
                   THEN N(N(refId).parent).init
                   ELSE 0]

\* the traversal of the node properties down to the component declaration;
\* 0 for null
RECURSIVE relatedByDefinition(_, _)
relatedByDefinition(componentNode, path) ==
  IF path = <<>> THEN componentNode
  ELSE IF N(componentNode).type \notin {"ObjectExpression", "ObjectPattern"}
  THEN relatedByDefinition(componentNode, Tail(path))
  ELSE LET found == SelectSeq(N(componentNode).properties, LAMBDA p :
                      N(p).key # 0 /\ N(N(p).key).name = Head(path))
       IN  IF found = <<>> \/ N(Head(found)).value = 0 THEN 0
           ELSE relatedByDefinition(N(Head(found)).value, Tail(path))

\* utils.getRelatedComponent(node); the component returned is appended to
\* S.related as the key of its record (0 for null)
getRelatedComponent(S, node) ==
  LET path == componentPath(node)
      names == SubSeq(path, 1, Len(path) - 1)
      componentName ==
        join([i \in 1..(2 * Len(names) - 1) |->
                IF i % 2 = 1 THEN names[(i + 1) \div 2] ELSE "."])
      variableName == IF path = <<>> THEN "" ELSE Head(path)
      byReference == relatedByReference(references(variableName), componentName)
      defInScope == SelectSeq(defs(node, variableName), LAMBDA def :
                      def.type \in {"ClassName", "FunctionName", "Variable"})
      declared == IF N(Head(defInScope).node).init # 0
                  THEN N(Head(defInScope).node).init ELSE Head(defInScope).node
      componentNode ==
        IF variableName = "" \/ defs(node, variableName) = <<>> THEN 0
        ELSE IF byReference.componentNode # 0 THEN byReference.componentNode
        ELSE IF defInScope = <<>> THEN 0
        ELSE relatedByDefinition(declared, Tail(path))
  IN  IF componentNode = 0
      THEN [S EXCEPT !.related = Append(@, [node |-> node, component |-> 0])]
      ELSE [S EXCEPT !.C = add(@, componentNode, 1),
                     !.related = Append(@, [node |-> node, component |-> getId(componentNode)])]

(* the declared-props tracker: the part that resolves the component *)

\* propTypesInstructions.MemberExpression: `Foo.propTypes` is resolved to
\* its component
declaredMemberExpression(S, node) ==
  IF N(N(node).property).type = "Identifier" /\ N(N(node).property).name = "propTypes"
     /\ ~N(node).computed
  THEN getRelatedComponent(S, node)
  ELSE S

-----------------------------------------------------------------------------
(* Spec: the registry driven through its interface *)

\* the nodes the detection instructions can register, and the nodes facts
\* are recorded from
Registrable == {n \in Nodes : ast[n].type \in
                  {"ClassDeclaration", "FunctionExpression", "CallExpression", "ArrowFunctionExpression"}}
Confidences == {0, 1, 2}

FA  == Fact("a", <<"a">>, "")
FAi == Fact("a", <<"a">>, "init")
FB  == Fact("b", <<"a", "b">>, "")

SetProps ==
  { [usedPropTypes |-> <<FA>>],
    [usedPropTypes |-> <<FAi, FB>>, ignoreUnusedPropTypesValidation |-> TRUE],
    [hasDisplayName |-> TRUE] }

\* per key: whether add was passed 0, the largest confidence add was passed,
\* and the usedPropTypes lists set recorded on the key's record
NoHist == [zero |-> FALSE, max |-> -1, sets |-> <<>>]
NoCalls == [add |-> 0, set |-> 0, list |-> 0]

Init ==
  /\ ast = RegTree
  /\ components = NewComponents
  /\ ret = [op |-> "new"]
  /\ hist = [k \in Keys |-> NoHist]
  /\ calls = NoCalls
  /\ pos = 0
  /\ thrown = ""
  /\ propVariables = NewPropVariables
  /\ reported = {}

CallAdd(node, confidence) ==
  /\ calls.add < MaxAdds
  /\ components' = add(components, node, confidence)
  /\ ret' = [op |-> "add", node |-> node, confidence |-> confidence,
             rec |-> components'.list[getId(node)]]
  /\ hist' = [hist EXCEPT ![getId(node)] =
                [@ EXCEPT !.zero = @ \/ confidence = 0, !.max = Max(@, confidence)]]
  /\ calls' = [calls EXCEPT !.add = @ + 1]
  /\ UNCHANGED <<ast, pos, thrown, propVariables, reported>>

CallGet(node) ==
  /\ ret' = [op |-> "get", node |-> node, rec |-> get(components, node)]
  /\ UNCHANGED <<ast, components, hist, calls, pos, thrown, propVariables, reported>>

CallSet(node, props) ==
  /\ calls.set < MaxSets
  /\ components' = set(components, node, props)
  /\ ret' = [op |-> "set", node |-> node, props |-> props]
  /\ hist' = LET t == setTarget(components, node) IN
             IF t # 0 /\ "usedPropTypes" \in DOMAIN props
             THEN [hist EXCEPT ![t].sets = Append(@, props.usedPropTypes)]
             ELSE hist
  /\ calls' = [calls EXCEPT !.set = @ + 1]
  /\ UNCHANGED <<ast, pos, thrown, propVariables, reported>>

CallList ==
  /\ calls.list < MaxLists
  /\ components' = listMerge(components)
  /\ ret' = [op |-> "list", result |-> list(components)]
  /\ calls' = [calls EXCEPT !.list = @ + 1]
  /\ UNCHANGED <<ast, hist, pos, thrown, propVariables, reported>>

CallLength ==
  /\ ret' = [op |-> "length", result |-> length(components)]
  /\ UNCHANGED <<ast, components, hist, calls, pos, thrown, propVariables, reported>>

Next ==
  \/ \E node \in Registrable, confidence \in Confidences : CallAdd(node, confidence)
  \/ \E node \in {0, 4, 6} : CallGet(node)
  \/ \E node \in {3, 4, 7}, props \in SetProps : CallSet(node, props)
  \/ CallList
  \/ CallLength

Spec == Init /\ [][Next]_vars

-----------------------------------------------------------------------------
(* SpecFacts: add and set on the class (2) and the arrow function (4), with *)
(* facts whose paths differ but join to the same string                     *)

FC3 == Fact("c", <<"a", "b", "c">>, "")
FC2 == Fact("c", <<"ab", "c">>, "")
\* a fact without allNames
FN  == [name |-> "c", hasAllNames |-> FALSE, allNames |-> <<>>, kind |-> ""]

PathProps ==
  { [usedPropTypes |-> facts] :
      facts \in {<<FC3>>, <<FC2>>, <<FN>>, <<FA, FC3>>, <<FC2, FB>>, <<FB, FA>>} }

NextFacts ==
  \/ \E node \in {2, 4}, confidence \in {1, 2} : CallAdd(node, confidence)
  \/ \E node \in {2, 4}, props \in PathProps : CallSet(node, props)

SpecFacts == Init /\ [][NextFacts]_vars

-----------------------------------------------------------------------------
(* SpecMerge: mergeRules over six visitor objects (detection, declared      *)
(* props, used props, default props, react import, the consumer rule).  A   *)
(* visitor object maps a key to what its handler does when called:          *)
(* "returns" or "throws"; "absent" when it has no handler under the key.    *)
(* Only a handler of the used-props tracker throws.  hist holds the rules,  *)
(* pos counts the node visits.                                              *)

MaxVisits == 2

MergeKeys == {"VariableDeclarator", "MemberExpression"}

Visitors ==
  {rules \in [1..6 -> [MergeKeys -> {"absent", "returns", "throws"}]] :
     \A i \in 1..6 : \A key \in MergeKeys :
       rules[i][key] = "throws" => (i = 3 /\ key = "VariableDeclarator")}

\* handlersByKey.get(key) once rules.forEach has run from rule i on
RECURSIVE handlersByKey(_, _, _)
handlersByKey(rules, i, key) ==
  IF i > Len(rules) THEN <<>>
  ELSE (IF rules[i][key] # "absent" THEN <<i>> ELSE <<>>) \o handlersByKey(rules, i + 1, key)

\* value.forEach((fn) => { fn(node) }): the handlers called, by the index of
\* their rule, and whether one threw
RECURSIVE mergedHandler(_, _, _)
mergedHandler(rules, value, key) ==
  IF value = <<>> THEN [called |-> <<>>, thrown |-> FALSE]
  ELSE IF rules[Head(value)][key] = "throws" THEN [called |-> <<Head(value)>>, thrown |-> TRUE]
  ELSE [called |-> <<Head(value)>> \o mergedHandler(rules, Tail(value), key).called,
        thrown |-> mergedHandler(rules, Tail(value), key).thrown]

InitMerge ==
  /\ ast = RegTree
  /\ components = NewComponents
  /\ ret = [op |-> "new"]
  /\ hist \in Visitors
  /\ calls = NoCalls
  /\ pos = 0
  /\ thrown = ""
  /\ propVariables = NewPropVariables
  /\ reported = {}

\* the traversal visits a node the key matches
VisitNode(key) ==
  /\ pos < MaxVisits /\ thrown = ""
  /\ ret' = [op |-> "visit", key |-> key,
             called |-> mergedHandler(hist, handlersByKey(hist, 1, key), key).called]
  /\ thrown' = IF mergedHandler(hist, handlersByKey(hist, 1, key), key).thrown
               THEN "Error" ELSE ""
  /\ pos' = pos + 1
  /\ UNCHANGED <<ast, components, hist, calls, propVariables, reported>>

NextMerge == \E key \in MergeKeys : VisitNode(key)

SpecMerge == InitMerge /\ [][NextMerge]_vars

-----------------------------------------------------------------------------
(* SpecVersion: the React version utility (src/lib/util/version.js).  A     *)
(* string is the sequence of its parts between the dots.  In SpecVersion    *)
(* calls holds the module's variables and the number of times each warning  *)
(* was logged, ret the last call and its result, pos the number of calls.   *)

MaxTests == 3

NaN == 0 - 1

ULTIMATE_LATEST_SEMVER == <<"999", "999", "999">>

\* Number(part)
Number(part) ==
  CASE part = "0" -> 0 [] part = "2" -> 2 [] part = "3" -> 3 [] part = "16" -> 16
    [] part = "17" -> 17 [] part = "18" -> 18 [] part = "999" -> 999
    [] OTHER -> NaN

\* the text of a number, as join writes it
NumberToString(n) ==
  CASE n = 0 -> "0" [] n = 2 -> "2" [] n = 3 -> "3" [] n = 16 -> "16"
    [] n = 17 -> "17" [] n = 18 -> "18" [] n = 999 -> "999"
    [] OTHER -> "NaN"

IsDigits(part) == Number(part) # NaN

\* semver.coerce: the first run of up to three dot-separated numbers of the
\* text, padded with zeros; <<>> (null) when the text holds no number
RECURSIVE coerce(_)
coerce(str) ==
  IF str = <<>> THEN <<>>
  ELSE IF ~IsDigits(Head(str)) THEN coerce(Tail(str))
  ELSE IF Len(str) >= 3 /\ IsDigits(str[2]) /\ IsDigits(str[3]) THEN <<str[1], str[2], str[3]>>
  ELSE IF Len(str) >= 2 /\ IsDigits(str[2]) THEN <<str[1], str[2], "0">>
  ELSE <<str[1], "0", "0">>

\* /^[0-9]+\.[0-9]+$/.test(confVer) ? `${confVer}.0` : confVer
fullSemverString(confVer) ==
  IF Len(confVer) = 2 /\ IsDigits(confVer[1]) /\ IsDigits(confVer[2])
  THEN confVer \o <<"0">> ELSE confVer

convertConfVerToSemver(confVer) ==
  coerce([n \in 1..Len(fullSemverString(confVer)) |->
            NumberToString(Number(fullSemverString(confVer)[n]))])

\* error(message): the logging collaborator writes the message, every time
error(V, message) == [V EXCEPT !.errors[message] = @ + 1]

Messages ==
  {"missing", "notInstalled", "versionNotString", "versionNotSemver",
   "defaultNotString", "defaultNotSemver"}

NewVersion ==
  [warnedForMissingVersion |-> FALSE,
   defaultVersion |-> ULTIMATE_LATEST_SEMVER,
   cachedDetectedReactVersion |-> <<>>,
   errors |-> [message \in Messages |-> 0]]

Undefined == [type |-> "undefined", s |-> <<>>]
Str(s) == [type |-> "string", s |-> s]

\* context.settings.react, and the version of the react package installed
\* next to the file (<<>>: not installed)
Contexts ==
  [version : {Undefined, Str(<<"detect">>), Str(<<"16", "3">>), Str(<<"latest">>),
              [type |-> "number", s |-> <<"17">>]},
   defaultVersion : {Undefined, Str(<<"16", "0">>), Str(<<"latest">>)},
   react : {<<>>, <<"18", "2", "0">>}]

Ranges == {[op |-> ">=", v |-> <<16, 3, 0>>], [op |-> "<", v |-> <<18, 0, 0>>]}

readDefaultReactVersionFromContext_Continue(V, settingsDefaultVersion) ==
  IF convertConfVerToSemver(settingsDefaultVersion) # <<>>
  THEN [V EXCEPT !.defaultVersion = convertConfVerToSemver(settingsDefaultVersion)]
  ELSE error(V, "defaultNotSemver")

readDefaultReactVersionFromContext(V, context) ==
  IF context.defaultVersion.type # "undefined"
  THEN readDefaultReactVersionFromContext_Continue(
         IF context.defaultVersion.type # "string" THEN error(V, "defaultNotString") ELSE V,
         context.defaultVersion.s)
  ELSE [V EXCEPT !.defaultVersion = ULTIMATE_LATEST_SEMVER]

\* the module's variables once detectReactVersion has returned; the value
\* returned is their cachedDetectedReactVersion
detectReactVersion(V, context) ==
  IF V.cachedDetectedReactVersion # <<>> THEN V
  ELSE IF context.react # <<>> THEN [V EXCEPT !.cachedDetectedReactVersion = context.react]
  ELSE [(IF ~V.warnedForMissingVersion THEN error(V, "notInstalled") ELSE V)
          EXCEPT !.warnedForMissingVersion = TRUE,
                 !.cachedDetectedReactVersion = V.defaultVersion]

\* the last lines of getReactVersionFromContext
getReactVersionFromContext_Result(V, confVer) ==
  IF convertConfVerToSemver(confVer) = <<>>
  THEN [v |-> V.defaultVersion, V |-> error(V, "versionNotSemver")]
  ELSE [v |-> convertConfVerToSemver(confVer), V |-> V]

getReactVersionFromContext_Settings(V, context) ==
  IF context.version.type # "undefined"
  THEN IF context.version = Str(<<"detect">>)
       THEN getReactVersionFromContext_Result(detectReactVersion(V, context),
              detectReactVersion(V, context).cachedDetectedReactVersion)
       ELSE getReactVersionFromContext_Result(
              IF context.version.type # "string" THEN error(V, "versionNotString") ELSE V,
              context.version.s)
  ELSE IF ~V.warnedForMissingVersion
  THEN getReactVersionFromContext_Result(
         [error(V, "missing") EXCEPT !.warnedForMissingVersion = TRUE], V.defaultVersion)
  ELSE getReactVersionFromContext_Result(V, V.defaultVersion)

getReactVersionFromContext(V, context) ==
  getReactVersionFromContext_Settings(readDefaultReactVersionFromContext(V, context), context)

Less(a, b) ==
  \/ a[1] < b[1]
  \/ a[1] = b[1] /\ a[2] < b[2]
  \/ a[1] = b[1] /\ a[2] = b[2] /\ a[3] < b[3]

\* semver.satisfies(confVer, semverRange)
test(semverRange, confVer) ==
  IF semverRange.op = "<"
  THEN Less([n \in 1..3 |-> Number(confVer[n])], semverRange.v)
  ELSE ~Less([n \in 1..3 |-> Number(confVer[n])], semverRange.v)

InitVersion ==
  /\ ast = RegTree
  /\ components = NewComponents
  /\ ret = [op |-> "new"]
  /\ hist = <<>>
  /\ calls = NewVersion
  /\ pos = 0
  /\ thrown = ""
  /\ propVariables = NewPropVariables
  /\ reported = {}

testReactVersion(context, semverRange) ==
  /\ pos < MaxTests
  /\ calls' = getReactVersionFromContext(calls, context).V
  /\ ret' = [op |-> "testReactVersion", context |-> context, semverRange |-> semverRange,
             version |-> getReactVersionFromContext(calls, context).v,
             result |-> test(semverRange, getReactVersionFromContext(calls, context).v)]
  /\ pos' = pos + 1
  /\ UNCHANGED <<ast, components, hist, thrown, propVariables, reported>>

NextVersion == \E context \in Contexts, semverRange \in Ranges : testReactVersion(context, semverRange)

SpecVersion == InitVersion /\ [][NextVersion]_vars

-----------------------------------------------------------------------------
(* SpecScopes: the prop-variable scopes (createPropVariables) driven by     *)
(* their four operations.  In SpecScopes hist is the stack of what get saw  *)
(* at each pushScope still open, and pos counts the calls.                  *)

MaxScopeCalls == 6

ScopeNames == {"a", "b"}

ScopePaths == {<<"a">>, <<"a", "b">>}

InitScopes ==
  /\ ast = RegTree
  /\ components = NewComponents
  /\ ret = [op |-> "new"]
  /\ hist = <<>>
  /\ calls = NoCalls
  /\ pos = 0
  /\ thrown = ""
  /\ propVariables = NewPropVariables
  /\ reported = {}

CallPushScope ==
  /\ pos < MaxScopeCalls
  /\ propVariables' = pushScope(propVariables)
  /\ hist' = Append(hist, propVariables.maps[propVariables.propVariables])
  /\ ret' = [op |-> "pushScope"]
  /\ pos' = pos + 1
  /\ UNCHANGED <<ast, components, calls, thrown, reported>>

CallPopScope ==
  /\ pos < MaxScopeCalls
  /\ Len(propVariables.stack) > 1
  /\ propVariables' = popScope(propVariables)
  /\ hist' = SubSeq(hist, 1, Len(hist) - 1)
  /\ ret' = [op |-> "popScope", before |-> hist[Len(hist)]]
  /\ pos' = pos + 1
  /\ UNCHANGED <<ast, components, calls, thrown, reported>>

CallPropVariablesSet(name, allNames) ==
  /\ pos < MaxScopeCalls
  /\ propVariables' = propVariablesSet(propVariables, name, allNames)
  /\ ret' = [op |-> "set", name |-> name]
  /\ pos' = pos + 1
  /\ UNCHANGED <<ast, components, hist, calls, thrown, reported>>

CallPropVariablesGet(name) ==
  /\ pos < MaxScopeCalls
  /\ ret' = [op |-> "get", name |-> name,
             result |-> IF propVariablesHas(propVariables, name)
                        THEN propVariablesGet(propVariables, name) ELSE <<>>]
  /\ pos' = pos + 1
  /\ UNCHANGED <<ast, components, hist, calls, thrown, propVariables, reported>>

NextScopes ==
  \/ CallPushScope
  \/ CallPopScope
  \/ \E name \in ScopeNames, allNames \in ScopePaths : CallPropVariablesSet(name, allNames)
  \/ \E name \in ScopeNames : CallPropVariablesGet(name)

SpecScopes == InitScopes /\ [][NextScopes]_vars

-----------------------------------------------------------------------------
(* SpecWalk: the merged rule driven depth-first over one of the trees      *)

RECURSIVE traverse(_)
RECURSIVE traverseChildren(_, _)

\* the enter and exit events of the subtree of node, children in source order
traverse(node) ==
  <<[node |-> node, exit |-> FALSE]>> \o traverseChildren(node, node + 1)
    \o <<[node |-> node, exit |-> TRUE]>>

traverseChildren(node, child) ==
  IF child > Len(ast) THEN <<>>
  ELSE (IF ast[child].parent = node THEN traverse(child) ELSE <<>>)
         \o traverseChildren(node, child + 1)

events == traverse(1)

InitWalk ==
  /\ ast \in Programs
  /\ components = NewComponents
  /\ ret = [op |-> "new"]
  /\ hist = <<>>
  /\ calls = NoCalls
  /\ pos = 1
  /\ thrown = ""
  /\ propVariables = NewPropVariables
  /\ reported = {}

Done == pos > Len(events)

current == events[pos].node

Entering(types) ==
  /\ thrown = "" /\ ~Done
  /\ ~events[pos].exit /\ ast[current].type \in types

Leaving(types) ==
  /\ thrown = "" /\ ~Done
  /\ events[pos].exit /\ ast[current].type \in types

Started ==
  [C |-> Running(components), propVariables |-> propVariables, thrown |-> thrown,
   reported |-> reported, related |-> <<>>]

\* the state the handlers of one event leave
Left(S) ==
  /\ components' = [list |-> S.C.list, order |-> S.C.order]
  /\ propVariables' = S.propVariables
  /\ thrown' = S.thrown
  /\ reported' = S.reported
  /\ pos' = pos + 1
  /\ hist' = hist \o S.related
  /\ UNCHANGED <<ast, calls>>

Visited == ret' = [op |-> IF events[pos].exit THEN "exit" ELSE "enter", node |-> current]

VisitCallExpression ==
  /\ Entering({"CallExpression"})
  /\ Left(detectCallExpression(Started, current))
  /\ Visited

VisitClass ==
  /\ Entering({"ClassDeclaration", "ClassExpression"})
  /\ Left(detectClass(Started, current))
  /\ Visited

VisitObjectExpression ==
  /\ Entering({"ObjectExpression"})
  /\ Left(detectObjectExpression(Started, current))
  /\ Visited

\* mergedHandler: the handlers registered under one key run in the order of
\* the rules merged (the detection instructions first); the detection
\* instructions throw nothing
VisitFunction ==
  /\ Entering({"FunctionExpression", "FunctionDeclaration"})
  /\ Left(handleFunctionLikeExpressions(detectFunction(Started, current), current))
  /\ Visited

VisitArrowFunctionExpression ==
  /\ Entering({"ArrowFunctionExpression"})
  /\ Left(handleFunctionLikeExpressions(detectArrowFunctionExpression(Started, current), current))
  /\ Visited

ExitFunction ==
  /\ Leaving({"FunctionExpression", "FunctionDeclaration", "ArrowFunctionExpression"})
  /\ Left([Started EXCEPT !.propVariables = popScope(@)])
  /\ Visited

VisitThisExpression ==
  /\ Entering({"ThisExpression"})
  /\ Left(detectThisExpression(Started, current))
  /\ Visited

VisitVariableDeclarator ==
  /\ Entering({"VariableDeclarator"})
  /\ Left(usedVariableDeclarator(Started, current))
  /\ Visited

\* the MemberExpression selector (the declared-props tracker's handler, then
\* the rule's) is the more specific one and runs before the used-props
\* tracker's 'MemberExpression, OptionalMemberExpression'; the rule's handler
\* throws nothing
VisitMemberExpression ==
  /\ Entering({"MemberExpression", "OptionalMemberExpression"})
  /\ Left(usedMemberExpression(
            IF ast[current].type = "MemberExpression"
            THEN ruleMemberExpression(declaredMemberExpression(Started, current), current)
            ELSE Started,
            current))
  /\ Visited

VisitObjectPattern ==
  /\ Entering({"ObjectPattern"})
  /\ Left(usedObjectPattern(Started, current))
  /\ Visited

VisitJSXSpreadAttribute ==
  /\ Entering({"JSXSpreadAttribute"})
  /\ Left(usedJSXSpreadAttribute(Started, current))
  /\ Visited

ExitProgram ==
  /\ Leaving({"Program"})
  /\ Left(usedProgramExit(Started))
  /\ ret' = [op |-> "Program:exit", result |-> list(components)]

Handled ==
  {"CallExpression", "ClassDeclaration", "ClassExpression", "ObjectExpression",
   "FunctionExpression", "FunctionDeclaration", "ArrowFunctionExpression", "ThisExpression",
   "VariableDeclarator", "MemberExpression", "OptionalMemberExpression", "ObjectPattern",
   "JSXSpreadAttribute"}

\* an event no handler of the model is registered for
Skip ==
  /\ thrown = "" /\ ~Done
  /\ IF events[pos].exit
     THEN ast[current].type \notin {"FunctionExpression", "FunctionDeclaration",
                                    "ArrowFunctionExpression", "Program"}
     ELSE ast[current].type \notin Handled
  /\ Left(Started)
  /\ Visited

NextWalk ==
  \/ VisitCallExpression
  \/ VisitClass
  \/ VisitObjectExpression
  \/ VisitFunction
  \/ VisitArrowFunctionExpression
  \/ ExitFunction
  \/ VisitThisExpression
  \/ VisitVariableDeclarator
  \/ VisitMemberExpression
  \/ VisitObjectPattern
  \/ VisitJSXSpreadAttribute
  \/ ExitProgram
  \/ Skip

SpecWalk == InitWalk /\ [][NextWalk]_vars

-----------------------------------------------------------------------------
(* Properties of the registry (Spec) *)

Stored(k) == components.list[k]
Registered == DOMAIN components.list

\* C1: for any sequence of add calls on one range key, the stored
\* confidence is 0 if any of the calls passed 0 and otherwise the maximum of
\* the confidences passed, and every add returns the record stored under
\* the key.
C1_AddCombinesConfidence ==
  /\ \A k \in Registered :
       /\ hist[k].max >= 0
       /\ Stored(k).confidence = IF hist[k].zero THEN 0 ELSE hist[k].max
  /\ \A k \in Keys : hist[k].max >= 0 => k \in Registered
  /\ ret.op = "add" => ret.rec = Stored(getId(ret.node))

\* an add of confidence 2 on a key that was passed 0 before: the record stays banned
C1_Witness ==
  /\ ret.op = "add" /\ ret.confidence = 2
  /\ hist[getId(ret.node)].zero /\ hist[getId(ret.node)].max = 2
  /\ ret.rec.confidence = 0
  /\ calls.add = 3

\* C2: get(node) returns the stored record exactly when a record exists
\* under the node's range key with confidence >= 1 and null otherwise, and
\* get never changes the registry.
C2_GetResult ==
  ret.op = "get" =>
    LET k == getId(ret.node) IN
    IF k \in Registered /\ Stored(k).confidence >= 1
    THEN ret.rec = Stored(k) /\ ret.rec # NoComponent
    ELSE ret.rec = NoComponent

C2_GetIsReadOnly == ret'.op = "get" => components' = components

C3_ListIsTheConfidentRecords ==
  /\ LET result == list(components) IN
       /\ DOMAIN result = {k \in Registered : Stored(k).confidence >= 2}
       /\ length(components) = Cardinality(DOMAIN result)
  /\ ret.op = "list" =>
       /\ DOMAIN ret.result = {k \in Registered : Stored(k).confidence >= 2}
       /\ \A k \in DOMAIN ret.result : ret.result[k] = Stored(k)
  /\ ret.op = "length" =>
       ret.result = Cardinality({k \in Registered : Stored(k).confidence >= 2})

\* list() with a banned, a tentative and a confident record in the registry
C3_Witness ==
  /\ ret.op = "list"
  /\ \E k0, k1, k2 \in Registered :
       /\ Stored(k0).confidence = 0
       /\ Stored(k1).confidence = 1 /\ Stored(k1).usedPropTypes # <<>>
       /\ Stored(k2).confidence = 2
       /\ DOMAIN ret.result = {k2}

\* the first node of node, node.parent, ... whose key holds a record of
\* confidence >= 1; 0 when there is none
RECURSIVE FirstKnownOnChain(_)
FirstKnownOnChain(node) ==
  IF node = 0 THEN 0
  ELSE IF getId(node) \in Registered /\ Stored(getId(node)).confidence >= 1 THEN node
  ELSE FirstKnownOnChain(ast[node].parent)

SetStep == calls'.set = calls.set + 1

\* C4: set(node, facts) updates exactly the record of the first node on the
\* parent chain whose confidence is >= 1; it creates no record, changes no
\* other record, and leaves the registry unchanged when no node qualifies.
C4_SetFrame ==
  SetStep =>
    LET first == FirstKnownOnChain(ret'.node)
        t == getId(first)
    IN  /\ DOMAIN components'.list = Registered
        /\ components'.order = components.order
        /\ \A k \in Registered \ {t} : components'.list[k] = Stored(k)
        /\ first = 0 => components' = components
        /\ first # 0 =>
             /\ components'.list[t].node = Stored(t).node
             /\ components'.list[t].confidence = Stored(t).confidence
             /\ \A f \in DOMAIN ret'.props \ {"usedPropTypes"} :
                  components'.list[t][f] = ret'.props[f]
             /\ "usedPropTypes" \in DOMAIN ret'.props =>
                  \A i \in 1..Len(ret'.props.usedPropTypes) :
                    \E j \in 1..Len(components'.list[t].usedPropTypes) :
                      usedPropTypesAreEquivalent(components'.list[t].usedPropTypes[j],
                                                 ret'.props.usedPropTypes[i])

C4_Set == [][C4_SetFrame]_vars

\* set from the arrow function (4): its own record is banned, its parent has
\* none, and the facts land on the class (2)
C4_Witness ==
  /\ ret.op = "set" /\ ret.node = 4
  /\ 4 \in Registered /\ Stored(4).confidence = 0 /\ Stored(4).usedPropTypes = <<>>
  /\ 3 \notin Registered
  /\ 2 \in Registered /\ Stored(2).usedPropTypes = <<FA>>

\* the same usage fact: same name and same allNames
SameFact(f, g) ==
  f.name = g.name /\ f.hasAllNames = g.hasAllNames /\ f.allNames = g.allNames

Holds(usedPropTypes, f) ==
  \E j \in 1..Len(usedPropTypes) : SameFact(usedPropTypes[j], f)

\* the key of the first ancestor of confidence 2 reached through parent
\* links without meeting a Decorator first; 0 when there is none
RECURSIVE ConfidentAncestor(_)
ConfidentAncestor(node) ==
  LET p == ast[node].parent IN
  IF p = 0 THEN 0
  ELSE IF ast[p].type = "Decorator" THEN 0
  ELSE IF getId(p) \in Registered /\ Stored(getId(p)).confidence >= 2 THEN getId(p)
  ELSE ConfidentAncestor(p)

ListStep == calls'.list = calls.list + 1

\* C5: when list() runs, the used-prop facts of every registered node of
\* confidence < 2 appear in the entry of its first confidence-2 ancestor
\* reached without meeting a Decorator, also across a tentative node in
\* between; a node whose climb meets a Decorator first is merged into no
\* component.
C5_ListStep ==
  ListStep =>
    /\ \A i \in Registered :
         (Stored(i).confidence < 2 /\ ConfidentAncestor(Stored(i).node) # 0) =>
           \A n \in 1..Len(Stored(i).usedPropTypes) :
             Holds(ret'.result[ConfidentAncestor(Stored(i).node)].usedPropTypes,
                   Stored(i).usedPropTypes[n])
    /\ \A k \in DOMAIN ret'.result :
         \A n \in 1..Len(ret'.result[k].usedPropTypes) :
           LET g == ret'.result[k].usedPropTypes[n] IN
           ~Holds(Stored(k).usedPropTypes, g) =>
             \E i \in Registered :
               /\ Stored(i).confidence < 2
               /\ ConfidentAncestor(Stored(i).node) = k
               /\ Holds(Stored(i).usedPropTypes, g)

C5_ListMergesIntoConfidentAncestor == [][C5_ListStep]_vars

\* the number of set calls that recorded fact f on the record of key k, and
\* the number of entries the record holds for it
TimesRecorded(k, f) ==
  Cardinality({i \in 1..Len(hist[k].sets) : Holds(hist[k].sets[i], f)})

Entries(k, f) ==
  Cardinality({j \in 1..Len(Stored(k).usedPropTypes) : SameFact(Stored(k).usedPropTypes[j], f)})

\* C6: recording the same usage fact twice through two set calls on the
\* same component leaves exactly one entry for it in usedPropTypes.
C6_SameFactTwiceOneEntry ==
  \A k \in Registered : \A f \in {FA, FB} :
    TimesRecorded(k, f) >= 2 => Entries(k, f) = 1

\* two set calls recorded fact a on the class
C6_Witness ==
  /\ ret.op = "set" /\ ret.props = [usedPropTypes |-> <<FA>>]
  /\ 2 \in Registered
  /\ hist[2].sets = << <<FA>>, <<FA>> >>
  /\ Stored(2).usedPropTypes = <<FA>>

-----------------------------------------------------------------------------
(* Properties of the walk (SpecWalk) *)

Confirmed == {k \in Registered : Stored(k).confidence >= 2}

\* C7: on any valid syntax tree the merged walk completes without any
\* engine visitor raising an exception, in particular when the used-props
\* tracker visits a variable declarator whose id is an object pattern and
\* that has an initializer (const {a} = obj).
C7_WalkNeverThrows == thrown = ""

\* C8: the error '<type> ASTNodes are not handled by markPropTypesAsUsed'
\* is unreachable on every valid tree: every call the tracker's visitors
\* make to markPropTypesAsUsed passes a member expression, a function-like
\* node, an object pattern or a TSEmptyBodyFunctionExpression.
C8_NotHandledIsUnreachable ==
  \A n \in Nodes : thrown # notHandled(ast[n].type)

\* C9: for const Foo = memo(forwardRef((props, ref) => <div/>)), after
\* the walk exactly one component is registered with confidence 2, the
\* outer memo call (node 8); neither the nested forwardRef call (10) nor
\* the arrow function (12) is a second confirmed component.
C9_OneComponentForMemoForwardRef ==
  (ast = MemoForwardRef /\ Done) =>
    /\ Confirmed = {getId(8)}
    /\ DOMAIN ret.result = {getId(8)}
    /\ length(components) = 1

\* the function a `this.<property>` lies in when that function is
\* recognised as a stateless component; 0 otherwise
BannedBy(this) ==
  LET component == getParentStatelessComponent(Running(components), this).v IN
  IF /\ ast[this].type = "ThisExpression"
     /\ N(ast[this].parent).property # 0
     /\ isFunctionLike(component)
  THEN component ELSE 0

\* C10: when a this expression whose parent accesses a property (this.x)
\* occurs inside a function recognised as a stateless component, the
\* enclosing function's confidence is forced to 0: after the walk
\* get(function) returns null and the function is absent from list().
C10_ThisBansEnclosingFunction ==
  Done =>
    \A this \in Nodes :
      BannedBy(this) # 0 =>
        /\ get(components, BannedBy(this)) = NoComponent
        /\ getId(BannedBy(this)) \notin DOMAIN ret.result

-----------------------------------------------------------------------------
(* C11: for class Foo extends Component { render() { return                *)
(* <div>{this.props.x.y}</div> } }, after the walk the usedPropTypes of    *)
(* the Foo class component contains a fact with name 'x' and allNames      *)
(* ['x','y'].                                                              *)

HasFact(node, name, allNames) ==
  \E i \in 1..Len(get(components, node).usedPropTypes) :
    /\ get(components, node).usedPropTypes[i].name = name
    /\ get(components, node).usedPropTypes[i].allNames = allNames

C11_ThisPropsMemberIsRecorded ==
  (ast = ClassPropsMember /\ Done) => HasFact(2, "x", <<"x", "y">>)

-----------------------------------------------------------------------------
(* C12: destructured props with a rest element or a computed key *)

\* the props pattern of the function f ("no node" when f has none)
PatternOf(f) ==
  IF ~isFunctionLike(f) \/ N(f).params = <<>> \/ isSetStateUpdater(f) THEN 0
  ELSE IF N(N(f).params[1]).type = "AssignmentPattern" THEN N(N(f).params[1]).left
  ELSE IF isObjectPattern(N(f).params[1]) THEN N(f).params[1]
  ELSE 0

Stops(property) == hasSpreadOperator(property) \/ N(property).computed

\* the positions in the pattern of its rest elements and computed keys
StopsOf(pattern) ==
  {k \in 1..Len(N(pattern).properties) : Stops(N(pattern).properties[k])}

FirstStop(pattern) == CHOOSE k \in StopsOf(pattern) : \A j \in StopsOf(pattern) : k <= j

KeyAt(pattern, j) == getKeyValue(N(pattern).properties[j])

\* the component markPropTypesAsUsed(f) updates in the registry C
OwnerIn(C, f) == get(C, getParentComponent(Running(C), f).v)

HasFactIn(component, allNames) ==
  \E i \in 1..Len(component.usedPropTypes) : component.usedPropTypes[i].allNames = allNames

MarksStopped(f) ==
  /\ thrown = "" /\ ~Done /\ ~events[pos].exit /\ current = f
  /\ thrown' = ""
  /\ PatternOf(f) # 0 /\ StopsOf(PatternOf(f)) # {}
  /\ \A j \in 1..(FirstStop(PatternOf(f)) - 1) : KeyAt(PatternOf(f), j) # ""
  /\ (get(components', f) # NoComponent \/ get(components', N(f).parent) # NoComponent)
  /\ OwnerIn(components', f) # NoComponent

-----------------------------------------------------------------------------
(* C13: computed member access on props *)

\* m is props[expr] or this.props[expr] with expr no literal
ComputedPropsAccess(m) ==
  /\ isMemberExpression(m) /\ N(m).computed
  /\ N(N(m).property).type = "Identifier"
  /\ \/ isThisDotProps(unwrapTSAsExpression(N(m).object))
     \/ /\ hasName(unwrapTSAsExpression(N(m).object))
        /\ N(unwrapTSAsExpression(N(m).object)).name = "props"

DeclaredArrows(m) ==
  {f \in Nodes :
     /\ f < m
     /\ N(f).type = "ArrowFunctionExpression" /\ N(f).returnsJSX
     /\ N(N(f).parent).type = "VariableDeclarator" /\ N(N(f).parent).init = f
     /\ N(N(N(f).parent).id).type = "Identifier"
     /\ isFirstLetterCapitalized(N(N(N(f).parent).id).name)
     /\ N(m).type = "MemberExpression" /\ ~N(m).computed
     /\ N(N(m).object).type = "Identifier"
     /\ N(N(m).object).name = N(N(N(f).parent).id).name
     /\ N(N(m).property).name = "propTypes"}

\* C14: when `const Foo = () => <div/>` is declared and `Foo.propTypes = {}`
\* follows, the component getRelatedComponent returned for the member
\* expression is the record of the arrow function, and the list returned at
\* the end of the walk holds that record, with the arrow function as its node.
C14_RelatedComponentIsTheListedOne ==
  Done =>
    \A i \in 1..Len(hist) : \A f \in DeclaredArrows(hist[i].node) :
      /\ hist[i].component = getId(f)
      /\ getId(f) \in DOMAIN ret.result
      /\ ret.result[getId(f)].node = f
      /\ ret.result[getId(f)] = components.list[getId(f)]

C14_Witness ==
  /\ Done
  /\ \E i \in 1..Len(hist) : \E f \in DeclaredArrows(hist[i].node) :
       hist[i].component = getId(f) /\ ret.result[getId(f)].confidence = 2


\* the registry holds node with confidence 2
IsConfirmed(node) ==
  /\ getId(node) \in DOMAIN components.list
  /\ components.list[getId(node)].node = node
  /\ components.list[getId(node)].confidence = 2

\* the callee of the call is memo or forwardRef imported from the pragma
\* module, or React.memo or React.forwardRef
MatchesWrapperFunction(call) ==
  /\ N(call).type = "CallExpression"
  /\ \/ /\ N(N(call).callee).type = "Identifier"
        /\ N(N(call).callee).name \in {"memo", "forwardRef"}
        /\ N(call).pragmaImport
     \/ /\ isMemberExpression(N(call).callee)
        /\ N(N(N(call).callee).object).name = pragma
        /\ N(N(N(call).callee).property).name \in {"memo", "forwardRef"}
        /\ ~nodeWrapsComponent(Running(components), call).v

FirstArgumentIsFunction(call) ==
  /\ Len(N(call).arguments) > 0
  /\ N(N(call).arguments[1]).type \in {"FunctionExpression", "ArrowFunctionExpression"}

\* C15: after the walk a call expression has confidence 2 exactly when its
\* callee matches a wrapper function and its first argument is a function or
\* arrow function expression.
C15_ConfirmedIffWrapperOfFunction ==
  (Done /\ thrown = "") =>
    \A call \in Nodes :
      N(call).type = "CallExpression" =>
        (IsConfirmed(call) <=> (MatchesWrapperFunction(call) /\ FirstArgumentIsFunction(call)))

\* the outermost of the wrapper calls nested directly around node
RECURSIVE OutermostWrapper(_)
OutermostWrapper(node) ==
  IF MatchesWrapperFunction(N(node).parent) THEN OutermostWrapper(N(node).parent) ELSE node

\* the call is the outermost wrapper call around a function or arrow function
\* expression that returns JSX or null and is not an async generator
WrapsComponentFunction(call) ==
  \E f \in Nodes :
    /\ N(f).type \in {"FunctionExpression", "ArrowFunctionExpression"}
    /\ ~(N(f).async /\ N(f).generator)
    /\ isReturningJSXOrNull(f)
    /\ MatchesWrapperFunction(N(f).parent)
    /\ call = OutermostWrapper(f)

\* C15 (amended): after a walk that threw nothing a call expression has
\* confidence 2 exactly when its callee matches a wrapper function and
\* either its first argument is a function or arrow function expression, or
\* it is the outermost of the wrapper calls nested directly around a function
\* that returns JSX or null.
C15_ConfirmedIffWrapperOfFunctionOrOutermost ==
  (Done /\ thrown = "") =>
    \A call \in Nodes :
      N(call).type = "CallExpression" =>
        (IsConfirmed(call) <=>
           /\ MatchesWrapperFunction(call)
           /\ FirstArgumentIsFunction(call) \/ WrapsComponentFunction(call))

C15_Witness ==
  /\ Done /\ thrown = ""
  /\ \E call \in Nodes :
       IsConfirmed(call) /\ ~FirstArgumentIsFunction(call) /\ WrapsComponentFunction(call)
  /\ \E call \in Nodes :
       IsConfirmed(call) /\ FirstArgumentIsFunction(call) /\ ~WrapsComponentFunction(call)


\* the walk has entered node
Entered(node) ==
  \E i \in 1..Len(events) : i < pos /\ events[i].node = node /\ ~events[i].exit

\* the function declarations and expressions that are async generators
Banned ==
  {f \in Nodes : /\ N(f).type \in {"FunctionDeclaration", "FunctionExpression"}
                 /\ N(f).async /\ N(f).generator}

\* C16: once the walk has visited a function declaration or expression that
\* is both async and a generator, the registry holds it with confidence 0,
\* get does not return it, and the list returned at the end of the walk does
\* not hold it, whatever the later handlers of the walk add for it.
C16_AsyncGeneratorStaysBanned ==
  thrown = "" =>
    \A f \in Banned :
      Entered(f) =>
        /\ getId(f) \in DOMAIN components.list
        /\ components.list[getId(f)].confidence = 0
        /\ get(components, f) = NoComponent
        /\ Done => getId(f) \notin DOMAIN ret.result

\* the walk has ended, and after the visit of an async generator function the
\* related-component resolution came back to it (with add(node, 1))
C16_Witness ==
  /\ Done /\ thrown = ""
  /\ \E f \in Banned :
       /\ N(f).returnsJSX
       /\ components.list[getId(f)].confidence = 0
       /\ \E i \in 1..Len(hist) : hist[i].component = getId(f) /\ hist[i].node > f


\* the function declarations that are not async generators
Declarations == {f \in Nodes : N(f).type = "FunctionDeclaration"} \ Banned

UnnamedOrCapitalized(f) == N(f).id = 0 \/ isFirstLetterCapitalized(N(N(f).id).name)

\* C17: after the walk a function declaration is confirmed (a record with
\* confidence 2 whose node is the declaration) exactly when it is unnamed or
\* its name starts with an uppercase letter and its body returns JSX; one
\* whose body only returns null is not confirmed.
C17_DeclarationConfirmedIffReturnsJSX ==
  (Done /\ thrown = "") =>
    \A f \in Declarations :
      IsConfirmed(f) <=> (UnnamedOrCapitalized(f) /\ N(f).returnsJSX)

\* C17 (amended): after a walk that threw nothing a function declaration that
\* is not an async generator is confirmed exactly when it is unnamed or its
\* name starts with an uppercase letter and its body returns JSX or null; so
\* a capitalised declaration that only returns null is confirmed, and a
\* declaration with a lowercase name never is.
C17_DeclarationConfirmedIffReturnsJSXOrNull ==
  (Done /\ thrown = "") =>
    \A f \in Declarations :
      /\ IsConfirmed(f) <=> (UnnamedOrCapitalized(f) /\ (N(f).returnsJSX \/ N(f).returnsNull))
      /\ ~UnnamedOrCapitalized(f) => ~IsConfirmed(f)

C17_Witness ==
  /\ Done /\ thrown = ""
  /\ \E f \in Declarations :
       /\ N(f).id # 0 /\ N(f).returnsNull /\ ~N(f).returnsJSX /\ IsConfirmed(f)
       /\ ret.result[getId(f)].node = f


\* f is the right side of an assignment to a property other than
\* module.exports
AssignedToProperty(f) ==
  /\ N(N(f).parent).type = "AssignmentExpression" /\ N(N(f).parent).right = f
  /\ isMemberExpression(N(N(f).parent).left)
  /\ N(N(N(N(f).parent).left).property).type = "Identifier"
  /\ ~(/\ N(N(N(N(f).parent).left).object).name = "module"
       /\ N(N(N(N(f).parent).left).property).name = "exports")

\* f is the initializer of a declarator of an identifier, or the right side
\* of an assignment to an identifier
BoundToIdentifier(f) ==
  \/ /\ N(N(f).parent).type = "VariableDeclarator" /\ N(N(f).parent).init = f
     /\ N(N(N(f).parent).id).type = "Identifier"
  \/ /\ N(N(f).parent).type = "AssignmentExpression" /\ N(N(f).parent).right = f
     /\ N(N(N(f).parent).left).type = "Identifier"

\* the name of the variable or property the function is bound to
TargetName(f) ==
  IF N(N(f).parent).type = "VariableDeclarator" THEN N(N(N(f).parent).id).name
  ELSE IF isMemberExpression(N(N(f).parent).left)
  THEN N(N(N(N(f).parent).left).property).name
  ELSE N(N(N(f).parent).left).name

\* the function and arrow function expressions that return JSX or only null
\* and are not async generators
ReturningExpressions ==
  {f \in Nodes : /\ N(f).type \in {"FunctionExpression", "ArrowFunctionExpression"}
                 /\ N(f).returnsJSX \/ N(f).returnsNull} \ Banned

\* C18: after the walk a function or arrow function expression that returns
\* JSX or only null and is the initializer of a declarator or the right side
\* of an assignment to an identifier or to a property (not module.exports) is
\* confirmed when the target name starts with an uppercase letter and not
\* confirmed when it starts lowercase.
C18_BoundFunctionConfirmedIffTargetCapitalized ==
  (Done /\ thrown = "") =>
    \A f \in ReturningExpressions :
      (BoundToIdentifier(f) \/ AssignedToProperty(f)) =>
        (IsConfirmed(f) <=> isFirstLetterCapitalized(TargetName(f)))

\* C18 (amended): after a walk that threw nothing such a function bound to an
\* identifier is confirmed exactly when the identifier starts uppercase; one
\* assigned to a property is confirmed exactly when its own name starts
\* uppercase if it is a named function expression, and exactly when the
\* property name starts uppercase if it is unnamed.
C18_BoundFunctionConfirmedIffTargetOrOwnNameCapitalized ==
  (Done /\ thrown = "") =>
    \A f \in ReturningExpressions :
      /\ BoundToIdentifier(f) =>
           (IsConfirmed(f) <=> isFirstLetterCapitalized(TargetName(f)))
      /\ (AssignedToProperty(f) /\ N(f).id = 0) =>
           (IsConfirmed(f) <=> isFirstLetterCapitalized(TargetName(f)))
      /\ (AssignedToProperty(f) /\ N(f).id # 0) =>
           (IsConfirmed(f) <=> isFirstLetterCapitalized(N(N(f).id).name))

C18_Witness ==
  /\ Done /\ thrown = ""
  /\ \E f \in ReturningExpressions :
       /\ AssignedToProperty(f) /\ N(f).id # 0
       /\ ~isFirstLetterCapitalized(TargetName(f)) /\ IsConfirmed(f)


\* the function and arrow function expressions, async generators aside, that
\* are the value of an object property with an identifier as key
PropertyValues ==
  {f \in Nodes : /\ N(f).type \in {"FunctionExpression", "ArrowFunctionExpression"}
                 /\ N(N(f).parent).type = "Property" /\ N(N(f).parent).value = f
                 /\ N(N(N(f).parent).key).type = "Identifier"} \ Banned

KeyCapitalized(f) == isFirstLetterCapitalized(N(N(N(f).parent).key).name)

\* a method, or an unnamed function, under a key that is not computed
DecidedByKey(f) == (N(N(f).parent).method \/ N(f).id = 0) /\ ~N(N(f).parent).computed

\* C19: after the walk a function that is the value of an object property is
\* confirmed only if the key is capitalised and not computed and the function
\* is a method or an unnamed function expression.
C19_PropertyValueConfirmedOnlyByKey ==
  (Done /\ thrown = "") =>
    \A f \in PropertyValues : IsConfirmed(f) => (KeyCapitalized(f) /\ DecidedByKey(f))

\* C19 (amended): after a walk that threw nothing a method or unnamed function
\* under a key that is not computed is confirmed exactly when the key is
\* capitalised and the function returns JSX; a function under a computed key
\* and a named function expression are confirmed exactly when they return JSX
\* or null, are not a function with parameters under a lowercase key, and
\* either have a capitalised name of their own or are unnamed and return JSX.
C19_PropertyValueConfirmedByKeyOrGeneralRule ==
  (Done /\ thrown = "") =>
    \A f \in PropertyValues :
      IsConfirmed(f) <=>
        IF DecidedByKey(f) THEN KeyCapitalized(f) /\ N(f).returnsJSX
        ELSE /\ N(f).returnsJSX \/ N(f).returnsNull
             /\ ~(~KeyCapitalized(f) /\ Len(N(f).params) > 0)
             /\ IF N(f).id # 0 THEN isFirstLetterCapitalized(N(N(f).id).name)
                ELSE N(f).returnsJSX

C19_Witness ==
  /\ Done /\ thrown = ""
  /\ \E f \in PropertyValues :
       N(N(f).parent).computed /\ ~KeyCapitalized(f) /\ IsConfirmed(f)


-----------------------------------------------------------------------------
(* Properties of the registry, step by step (Spec) *)

\* C20: no call lowers the confidence stored under a key.
C20_ConfidenceNeverDecreases ==
  [][\A k \in Registered : components'.list[k].confidence >= Stored(k).confidence]_vars

\* the step is the call add(node, confidence) on key k
AddsOn(k, confidence) ==
  ret'.op = "add" /\ getId(ret'.node) = k /\ ret'.confidence = confidence

\* C20 (amended): the only call that lowers the confidence stored under a key
\* is add with confidence 0, which sets it to 0; add with a confidence of 1 or
\* 2 leaves the maximum of the stored and the passed confidence, and once a
\* call used confidence 0 on the key the stored confidence stays 0.
C20_ConfidenceOnlyDecreasesToZero ==
  [][\A k \in Registered :
       /\ components'.list[k].confidence < Stored(k).confidence =>
            (AddsOn(k, 0) /\ components'.list[k].confidence = 0)
       /\ \A c \in {1, 2} :
            (AddsOn(k, c) /\ ~hist[k].zero) =>
              components'.list[k].confidence = Max(Stored(k).confidence, c)
       /\ AddsOn(k, 0) => components'.list[k].confidence = 0
       /\ hist[k].zero => components'.list[k].confidence = 0]_vars

\* add(node, 0) right after add(node, 2) on the same key: 2 is lowered to 0
C20_Witness ==
  /\ ret.op = "add" /\ ret.confidence = 0 /\ ret.rec.confidence = 0
  /\ calls.add = 2
  /\ hist[getId(ret.node)].max = 2
  /\ \A k \in Keys \ {getId(ret.node)} : hist[k].max = -1


-----------------------------------------------------------------------------
(* Properties of the facts (SpecFacts) *)

\* the facts the set calls recorded on the record of key k
Recorded(k) ==
  {hist[k].sets[i][n] : <<i, n>> \in
     {p \in (1..Len(hist[k].sets)) \X (1..3) : p[2] <= Len(hist[k].sets[p[1]])}}

\* C21: two facts are treated as equivalent exactly when their names are
\* equal and their allNames are equal element by element (both without
\* allNames counts as equal), and a fact recorded with a path that no stored
\* fact has keeps an entry of its own.
C21_EquivalentIffSamePath ==
  \A k \in Registered :
    /\ \A f, g \in Recorded(k) : usedPropTypesAreEquivalent(f, g) <=> SameFact(f, g)
    /\ \A f \in Recorded(k) : Holds(Stored(k).usedPropTypes, f)


\* the registry after set(node, first) and then set(node, second)
SetTwice(node, first, second) == set(set(components, node, first), node, second)

\* the two lists hold the same facts
SameFacts(usedPropTypes, other) ==
  /\ \A i \in 1..Len(usedPropTypes) : Holds(other, usedPropTypes[i])
  /\ \A i \in 1..Len(other) : Holds(usedPropTypes, other[i])

\* C22: from any registry, recording the facts A and then the facts B on a
\* component through set leaves the component with the same facts as
\* recording B and then A.
C22_SetCommutes ==
  \A node \in {2, 4} : \A A, B \in PathProps :
    setTarget(components, node) # 0 =>
      SameFacts(SetTwice(node, A, B).list[setTarget(components, node)].usedPropTypes,
                SetTwice(node, B, A).list[setTarget(components, node)].usedPropTypes)


-----------------------------------------------------------------------------
(* Properties of the merged rule (SpecMerge) *)

\* C23: at every node visit the merged handler of a key calls each handler
\* registered under the key exactly once, in the order detection, declared
\* props, used props, default props, react import, consumer rule.
C23_EachHandlerOnceInOrder ==
  ret.op = "visit" =>
    /\ \A i \in 1..6 :
         hist[i][ret.key] # "absent" =>
           Cardinality({n \in 1..Len(ret.called) : ret.called[n] = i}) = 1
    /\ \A n \in 1..Len(ret.called) : hist[ret.called[n]][ret.key] # "absent"
    /\ \A n, m \in 1..Len(ret.called) : n < m => ret.called[n] < ret.called[m]


-----------------------------------------------------------------------------
(* Properties of the version utility (SpecVersion) *)

\* the settings hold a React version that is a string and no valid version
Malformed(context) ==
  /\ context.version.type = "string"
  /\ context.version # Str(<<"detect">>)
  /\ coerce(context.version.s) = <<>>

\* C24: with a malformed React version string in the settings, the warning
\* about it is logged at most once however many times testReactVersion is
\* called, and every such call evaluates the range against the latest version.
C24_MalformedWarnedOnce ==
  /\ calls.errors["versionNotSemver"] <= 1
  /\ (ret.op = "testReactVersion" /\ Malformed(ret.context)) =>
       /\ ret.version = ULTIMATE_LATEST_SEMVER
       /\ ret.result = test(ret.semverRange, ULTIMATE_LATEST_SEMVER)


-----------------------------------------------------------------------------
(* Properties of the prop-variable scopes (SpecScopes) *)

\* C25: the scopes behave like a stack that copies the map at every
\* pushScope: after popScope, get sees for every name what it saw just
\* before the matching pushScope, so an alias set inside a function is
\* visible neither in the enclosing function nor in a later sibling.
C25_PopRestoresScope ==
  ret.op = "popScope" => propVariables.maps[propVariables.propVariables] = ret.before


-----------------------------------------------------------------------------
(* Properties of the aliases (SpecWalk) *)

\* the declarators `const a = props.p.q`
AliasDeclarators ==
  {d \in Nodes :
     /\ N(d).type = "VariableDeclarator"
     /\ N(N(d).id).type = "Identifier"
     /\ N(d).init # 0
     /\ N(N(d).init).type = "MemberExpression"
     /\ N(N(N(d).init).object).type = "MemberExpression"
     /\ N(N(N(N(d).init).object).object).type = "Identifier"
     /\ N(N(N(N(d).init).object).object).name = "props"}

\* the names props.p.q of the declarator d stands for
AliasPath(d) ==
  <<N(N(N(N(d).init).object).property).name, N(N(N(d).init).property).name>>

\* the function node is written in, 0 at the top level
RECURSIVE FunctionOf(_)
FunctionOf(node) ==
  IF N(node).parent = 0 THEN 0
  ELSE IF isFunctionLike(N(node).parent) THEN N(node).parent
  ELSE FunctionOf(N(node).parent)

RECURSIVE Within(_, _)
Within(node, function) ==
  \/ FunctionOf(node) = function
  \/ FunctionOf(node) # 0 /\ Within(FunctionOf(node), function)

\* the member expressions `a.c` written after the declarator d of a, in the
\* function of d or in one nested in it
AliasUses(d) ==
  {m \in Nodes :
     /\ m > d
     /\ N(m).type = "MemberExpression"
     /\ N(N(m).object).type = "Identifier"
     /\ N(N(m).object).name = N(N(d).id).name
     /\ Within(m, FunctionOf(d))}

\* C26: after `const a = props.a.b` inside a component, a later `a.c` in the
\* same or in a nested function records a fact named c with allNames a, b, c.
C26_AliasExtendsPath ==
  \A d \in AliasDeclarators : \A m \in AliasUses(d) :
    (Entered(m) /\ thrown = "") =>
      \E k \in Registered : \E i \in 1..Len(Stored(k).usedPropTypes) :
        /\ Stored(k).usedPropTypes[i].name = N(N(m).property).name
        /\ Stored(k).usedPropTypes[i].allNames = AliasPath(d) \o <<N(N(m).property).name>>


-----------------------------------------------------------------------------
(* Properties of the recorded facts (SpecWalk) *)

NoTwoEquivalent(usedPropTypes) ==
  \A i, j \in 1..Len(usedPropTypes) :
    i # j => ~usedPropTypesAreEquivalent(usedPropTypes[i], usedPropTypes[j])

\* the member expressions this.props.<name>
ThisPropsReads ==
  {m \in Nodes :
     /\ N(m).type = "MemberExpression"
     /\ isThisDotProps(N(m).object)
     /\ N(N(m).property).type = "Identifier"}

\* C27: in every state of the walk no component holds two equivalent facts;
\* a component whose source reads this.props.x twice ends with exactly one
\* fact for x.
C27_NoEquivalentFacts ==
  /\ \A k \in Registered : NoTwoEquivalent(Stored(k).usedPropTypes)
  /\ (Done /\ thrown = "") =>
       \A m \in ThisPropsReads : \E k \in Registered :
         Cardinality({i \in 1..Len(Stored(k).usedPropTypes) :
                        Stored(k).usedPropTypes[i].name = N(N(m).property).name}) = 1


-----------------------------------------------------------------------------
(* Properties of the ignore flag (SpecWalk) *)

\* C28: once ignoreUnusedPropTypesValidation is true on a component it stays
\* true until the end of the walk; no later visit of the tracker resets it.
C28_IgnoreFlagStaysSet ==
  [][\A k \in DOMAIN components.list :
       components.list[k].ignoreUnusedPropTypesValidation =>
         /\ k \in DOMAIN components'.list
         /\ components'.list[k].ignoreUnusedPropTypesValidation]_vars


-----------------------------------------------------------------------------
(* Properties of list as a query (Spec) *)

\* the components of a list() result with their fields, an absent
\* usedPropTypes taken as no fact
Listed(result) == [k \in DOMAIN result |-> [result[k] EXCEPT !.hasUsedPropTypes = TRUE]]

\* list() called again at once returns the same components with the same facts
ListTwice == Listed(list(listMerge(components))) = Listed(list(components))

\* what a final list() returns after one more add does not depend on a
\* list() called before the add
ListThenAdd ==
  \A node \in Registrable, confidence \in Confidences :
    Listed(list(add(listMerge(components), node, confidence)))
      = Listed(list(add(components, node, confidence)))

\* nor, after one more set, on a list() called before the set
ListThenSet ==
  \A node \in Registrable, props \in SetProps :
    Listed(list(set(listMerge(components), node, props)))
      = Listed(list(set(components, node, props)))

\* C29: list() does not influence later results: the final list() is the
\* same whether or not list() was called earlier, and list() twice in a row
\* returns the same components with the same facts.
C29_ListIsAQuery == ListTwice /\ ListThenAdd /\ ListThenSet


-----------------------------------------------------------------------------
(* Properties of the related component (SpecWalk) *)

\* the step resolved a related component: the key of its record
Resolved == hist'[Len(hist')].component

\* C30: getRelatedComponent never hands out a banned component: a record it
\* returns has confidence >= 1, and resolving a node that is registered
\* already leaves its confidence as it was.
C30_RelatedIsNeverBanned ==
  [][(Len(hist') > Len(hist) /\ Resolved # 0) =>
       /\ components'.list[Resolved].confidence >= 1
       /\ Resolved \in DOMAIN components.list =>
            components'.list[Resolved].confidence = components.list[Resolved].confidence]_vars


\* C30 (amended): getRelatedComponent returns the record add(node, 1)
\* returns.  A node not registered before is registered with confidence 1;
\* a node registered before keeps its confidence, so the record returned is
\* banned exactly when the node was banned before.
C30_RelatedKeepsConfidence ==
  [][(Len(hist') > Len(hist) /\ Resolved # 0) =>
       /\ Resolved \in DOMAIN components'.list
       /\ components'.list[Resolved].confidence =
            IF Resolved \in DOMAIN components.list
            THEN components.list[Resolved].confidence ELSE 1]_vars

\* the node resolved last was banned before: the record handed out is banned
C30_Witness ==
  /\ Len(hist) > 0
  /\ hist[Len(hist)].component # 0
  /\ Stored(hist[Len(hist)].component).confidence = 0

====
